---- MODULE Spec2Model ----
(***************************************************************************)
(* Readiness evaluation of cluster resources (cli-experimental, package    *)
(* status): the field accessors over unstructured trees, the per-kind      *)
(* evaluators, the dispatcher IsReady and the batch loop Status.Do.        *)
(***************************************************************************)
EXTENDS Integers, Sequences, FiniteSets, TLC

VARIABLES
    resources,  \* Status.Resources: the ordered input references
    idx,        \* position of the range loop of Do (1-based)
    pc,         \* Do: "loop" | "fetched" | "returned"; IsReady: "eval" | "done"; accessor: "call" | "called"
    u,          \* the snapshot the current reference holds after Get
    getErr,     \* the error returned by DynamicClient.Get for the current reference
    rs,         \* Do's local rs: a slice of ResourceStatus
    errs,       \* Do's local errs: a slice of errors
    getLog,     \* the references handed to DynamicClient.Get, in call order
    ret,        \* what Do returned: [Resources, err]
    out,        \* what the last call of IsReady returned: [conds, err]
    ran,        \* the evaluator the last call of IsReady invoked
    call,       \* an accessor call on u: [fn, fieldPath, defaultValue]
    res         \* what the accessor call returned

vars == <<resources, idx, pc, u, getErr, rs, errs, getLog, ret, out, ran, call, res>>

(***************************************************************************)
(* Bounds of the model.                                                    *)
(***************************************************************************)
MaxRefs == 2
MaxInt == 1
MaxConds == 3

(***************************************************************************)
(* Untyped trees (map[string]interface{}).  A value is a one-field record  *)
(* whose field name is its dynamic Go type.                                *)
(***************************************************************************)
IntV(n) == [int |-> n]
Int32V(n) == [int32 |-> n]
Int64V(n) == [int64 |-> n]
Int8V(n) == [int8 |-> n]
FloatV(n) == [float64 |-> n]
BoolV(b) == [bool |-> b]
StrV(s) == [str |-> s]
MapV(m) == [map |-> m]
ListV(l) == [list |-> l]

IsA(v, t) == t \in DOMAIN v

\* The Go nil error / nil pointer.
Nil == "nil"

\* A Go slice: nil and empty are different values.
NilSlice == [isNil |-> TRUE, elems |-> <<>>]
EmptySlice == [isNil |-> FALSE, elems |-> <<>>]
MkSlice(s) == [isNil |-> FALSE, elems |-> s]
AppendSlice(s, e) == [isNil |-> FALSE, elems |-> Append(s.elems, e)]

\* A field that a generated snapshot leaves out.
Absent == [absent |-> TRUE]
MkMap(f) == [k \in {k \in DOMAIN f : f[k] # Absent} |-> f[k]]

Tail1(s) == SubSeq(s, 2, Len(s))

(***************************************************************************)
(* helpers.go                                                              *)
(***************************************************************************)
RECURSIVE NestedFieldNoCopyFrom(_, _, _)
NestedFieldNoCopyFrom(val, fields, i) ==
    IF i > Len(fields) THEN [val |-> val, found |-> TRUE, err |-> Nil]
    ELSE IF IsA(val, "map")
         THEN IF fields[i] \in DOMAIN val.map
              THEN NestedFieldNoCopyFrom(val.map[fields[i]], fields, i + 1)
              ELSE [val |-> Absent, found |-> FALSE, err |-> Nil]
         ELSE [val |-> Absent, found |-> FALSE, err |-> "accessor error: not a map"]

NestedFieldNoCopy(obj, fields) == NestedFieldNoCopyFrom(MapV(obj), fields, 1)

\* fields := strings.Split(fieldPath, "."); if fields[0] == "" { fields = fields[1:] }
\* A fieldPath is given as the list strings.Split returns for it.
StripLeadingDot(fields) == IF fields[1] = "" THEN Tail1(fields) ELSE fields

\* MapSliceLoop passing over the elements that are not maps.
RECURSIVE MapSliceLoopSkips(_, _, _)
MapSliceLoopSkips(array, i, conditions) ==
    IF i > Len(array) THEN [val |-> MkSlice(conditions), found |-> TRUE, err |-> Nil]
    ELSE IF ~IsA(array[i], "map")
         THEN MapSliceLoopSkips(array, i + 1, conditions)
         ELSE MapSliceLoopSkips(array, i + 1, Append(conditions, array[i].map))

RECURSIVE MapSliceLoop(_, _, _)
MapSliceLoop(array, i, conditions) ==
    IF i > Len(array) THEN [val |-> MkSlice(conditions), found |-> TRUE, err |-> Nil]
    ELSE IF ~IsA(array[i], "map")
         THEN [val |-> NilSlice, found |-> TRUE, err |-> "accessor error: element is not a map"]
         ELSE MapSliceLoop(array, i + 1, Append(conditions, array[i].map))

\* NestedMapSlice once NestedFieldNoCopy has returned r.
MapSliceOf(r) ==
    IF ~r.found \/ r.err # Nil THEN [val |-> NilSlice, found |-> r.found, err |-> r.err]
    ELSE IF ~IsA(r.val, "list")
         THEN [val |-> NilSlice, found |-> TRUE, err |-> "accessor error: not a list"]
         ELSE MapSliceLoop(r.val.list, 1, <<>>)

NestedMapSlice(obj, fields) == MapSliceOf(NestedFieldNoCopy(obj, fields))

\* The type switch of GetStringField on the value found.
StringOr(r, defaultValue) ==
    IF ~r.found \/ r.err # Nil THEN defaultValue
    ELSE IF IsA(r.val, "str") THEN r.val.str ELSE defaultValue

GetStringField(obj, fieldPath, defaultValue) ==
    StringOr(NestedFieldNoCopy(obj, StripLeadingDot(fieldPath)), defaultValue)

\* IntOr starting from the zero value: a value of another type gives 0.
IntOrZero(r, defaultValue) ==
    IF ~r.found \/ r.err # Nil THEN defaultValue
    ELSE IF IsA(r.val, "int") THEN r.val.int
    ELSE IF IsA(r.val, "int32") THEN r.val.int32
    ELSE IF IsA(r.val, "int64") THEN r.val.int64
    ELSE 0

\* The type switch of GetIntField on the value found.
IntOr(r, defaultValue) ==
    IF ~r.found \/ r.err # Nil THEN defaultValue
    ELSE IF IsA(r.val, "int") THEN r.val.int
    ELSE IF IsA(r.val, "int32") THEN r.val.int32
    ELSE IF IsA(r.val, "int64") THEN r.val.int64
    ELSE defaultValue

GetIntField(obj, fieldPath, defaultValue) ==
    IntOr(NestedFieldNoCopy(obj, StripLeadingDot(fieldPath)), defaultValue)

\* ConditionsOr handing on the nil slice that comes with an error.
ConditionsOrNil(r) ==
    IF r.err # Nil THEN r.val
    ELSE IF ~r.found THEN EmptySlice
    ELSE r.val

\* What GetConditions makes of NestedMapSlice's three results.
ConditionsOr(r) ==
    IF r.err # Nil THEN EmptySlice
    ELSE IF ~r.found THEN EmptySlice
    ELSE r.val

GetConditions(obj) == ConditionsOr(NestedMapSlice(obj, <<"status", "conditions">>))

(***************************************************************************)
(* status.go: the condition model                                          *)
(***************************************************************************)
ConditionReady == "Ready"
ConditionSettled == "Settled"
ConditionFailed == "Failed"
ConditionCompleted == "Completed"
ConditionTypes == {ConditionReady, ConditionSettled, ConditionFailed, ConditionCompleted}

NewFalseCondition(ctype) == [Type |-> ctype, Status |-> "False", Reason |-> ""]
NewCondition(ctype, reason) == [Type |-> ctype, Status |-> "True", Reason |-> reason]
False(c) == [c EXCEPT !.Status = "False"]

GenerationMismatch ==
    "Controller has not observed the latest change. Status generation does not match with metadata"

\* What an evaluator returns: ([]Condition, error).
Ok(conds) == [conds |-> conds, err |-> Nil]

d(n) == ToString(n)

(***************************************************************************)
(* The dedicated evaluators.  Each reads its fields from the tree and then *)
(* decides on the values read.                                             *)
(***************************************************************************)
\* []Condition{readyCondition} with the status and reason set on it.
Ready1(status, reason) ==
    Ok(<<[NewFalseCondition(ConditionReady) EXCEPT !.Status = status, !.Reason = reason]>>)

alwaysReady(obj) == Ok(<<[Type |-> ConditionReady, Status |-> "True", Reason |-> "always"]>>)

\* stsOndelete spelling the strategy as the API does.
stsOndeleteCapitalised(updateStrategy) == updateStrategy = "OnDelete"

stsOndelete(updateStrategy) == updateStrategy = "ondelete"

stsDecide(updateStrategy, observedGeneration, metaGeneration, specReplicas, readyReplicas, currentReplicas, updatedReplicas, statusReplicas, partition, currentRevision, updatedRevision) ==
    IF stsOndelete(updateStrategy) THEN Ready1("True", "ondelete strategy")
    ELSE IF observedGeneration # metaGeneration THEN Ready1("False", GenerationMismatch)
    ELSE IF specReplicas > statusReplicas
    THEN Ready1("False", "Waiting for requested replicas. Replicas: "
                          \o d(statusReplicas) \o "/" \o d(specReplicas))
    ELSE IF specReplicas > readyReplicas
    THEN Ready1("False", "Waiting for replicas to become Ready. Ready: "
                          \o d(readyReplicas) \o "/" \o d(specReplicas))
    ELSE IF partition # -1
    THEN IF updatedReplicas < (specReplicas - partition)
         THEN Ready1("False", "Waiting for partition rollout to complete. updated: "
                               \o d(updatedReplicas) \o "/" \o d(specReplicas - partition))
         ELSE Ready1("True", "Partition rollout complete. updated: " \o d(updatedReplicas))
    ELSE IF specReplicas > currentReplicas
    THEN Ready1("False", "Waiting for replicas to become current. current: "
                          \o d(currentReplicas) \o "/" \o d(specReplicas))
    ELSE IF currentRevision # updatedRevision
    THEN Ready1("False", "Waiting for updated revision to match currentd")
    ELSE Ready1("True", "All replicas scheduled as expected. Replicas: " \o d(statusReplicas))

\* stsConditions with the partition defaulting to 0.
stsConditionsPartitionZero(obj) ==
    stsDecide(GetStringField(obj, <<"", "spec", "updateStrategy", "type">>, ""),
              GetIntField(obj, <<"", "status", "observedGeneration">>, -1),
              GetIntField(obj, <<"", "metadata", "generation">>, -1),
              GetIntField(obj, <<"", "spec", "replicas">>, 1),
              GetIntField(obj, <<"", "status", "readyReplicas">>, 0),
              GetIntField(obj, <<"", "status", "currentReplicas">>, 0),
              GetIntField(obj, <<"", "status", "updatedReplicas">>, 0),
              GetIntField(obj, <<"", "status", "replicas">>, 0),
              GetIntField(obj, <<"", "spec", "updateStrategy", "rollingUpdate", "partition">>, 0),
              GetStringField(obj, <<"", "status", "currentRevision">>, ""),
              GetStringField(obj, <<"", "status", "updatedRevision">>, ""))

stsConditions(obj) ==
    stsDecide(GetStringField(obj, <<"", "spec", "updateStrategy", "type">>, ""),
              GetIntField(obj, <<"", "status", "observedGeneration">>, -1),
              GetIntField(obj, <<"", "metadata", "generation">>, -1),
              GetIntField(obj, <<"", "spec", "replicas">>, 1),
              GetIntField(obj, <<"", "status", "readyReplicas">>, 0),
              GetIntField(obj, <<"", "status", "currentReplicas">>, 0),
              GetIntField(obj, <<"", "status", "updatedReplicas">>, 0),
              GetIntField(obj, <<"", "status", "replicas">>, 0),
              GetIntField(obj, <<"", "spec", "updateStrategy", "rollingUpdate", "partition">>, -1),
              GetStringField(obj, <<"", "status", "currentRevision">>, ""),
              GetStringField(obj, <<"", "status", "updatedRevision">>, ""))

\* generationObserved with the comparison left out.
generationAlwaysObserved(observedGeneration, metaGeneration) == TRUE

\* The generation check of the workload evaluators.
generationObserved(observedGeneration, metaGeneration) == observedGeneration = metaGeneration

\* deploymentDeadlineExceeded with the early return left out.
deploymentDeadlineIgnored(reason) == FALSE

\* One Progressing entry of the scan: does it end the evaluation?
deploymentDeadlineExceeded(reason) == reason = "ProgressDeadlineExceeded"

\* One entry of the scan, read as (type, status, reason), applied to the flags.
deploymentEntry(type, status, reason, st) ==
    IF type = "Progressing"
    THEN IF deploymentDeadlineExceeded(reason)
         THEN [st EXCEPT !.exceeded = TRUE]
         ELSE [st EXCEPT !.progress = @ \/ (status = "True" /\ reason = "NewReplicaSetAvailable")]
    ELSE IF type = "Available"
    THEN [st EXCEPT !.available = @ \/ status = "True"]
    ELSE st

\* The scan of status.conditions, which stops at the first exceeded deadline.
RECURSIVE deploymentScan(_, _, _)
deploymentScan(conditions, i, st) ==
    IF i > Len(conditions) \/ st.exceeded THEN st
    ELSE deploymentScan(conditions, i + 1,
                        deploymentEntry(GetStringField(conditions[i], <<"", "type">>, ""),
                                        GetStringField(conditions[i], <<"", "status">>, ""),
                                        GetStringField(conditions[i], <<"", "reason">>, ""),
                                        st))

deploymentDecide(observedGeneration, metaGeneration, scan, specReplicas, statusReplicas, updatedReplicas, readyReplicas, availableReplicas) ==
    IF ~generationObserved(observedGeneration, metaGeneration)
    THEN Ready1("False", GenerationMismatch)
    ELSE IF scan.exceeded THEN Ready1("False", "Progress Deadline exceeded")
    ELSE IF specReplicas > updatedReplicas
    THEN Ready1("False", "Waiting for all replicas to be updated. Updated: "
                          \o d(updatedReplicas) \o "/" \o d(specReplicas))
    ELSE IF statusReplicas > updatedReplicas
    THEN Ready1("False", "Waiting for old replicas to finish termination. Pending termination: "
                          \o d(statusReplicas - updatedReplicas))
    ELSE IF updatedReplicas > availableReplicas
    THEN Ready1("False", "Waiting for all replicas to be available. Available: "
                          \o d(availableReplicas) \o "/" \o d(updatedReplicas))
    ELSE IF specReplicas > readyReplicas
    THEN Ready1("False", "Waiting for all replicas to be ready. Ready: "
                          \o d(readyReplicas) \o "/" \o d(specReplicas))
    ELSE IF specReplicas > statusReplicas
    THEN Ready1("False", "Waiting for all .status.replicas to be catchup. replicas: "
                          \o d(statusReplicas) \o "/" \o d(specReplicas))
    ELSE IF ~scan.progress THEN Ready1("False", "New ReplicaSet is not available")
    ELSE IF ~scan.available THEN Ready1("False", "Deployment is not Available")
    ELSE Ready1("True", "Deployment is available. Replicas: " \o d(statusReplicas))

\* deploymentConditions with spec.replicas defaulting to 0.
deploymentConditionsSpecZero(obj) ==
    deploymentDecide(GetIntField(obj, <<"", "status", "observedGeneration">>, -1),
                     GetIntField(obj, <<"", "metadata", "generation">>, -1),
                     deploymentScan(GetConditions(obj).elems, 1,
                                    [exceeded |-> FALSE, progress |-> FALSE, available |-> FALSE]),
                     GetIntField(obj, <<"", "spec", "replicas">>, 0),
                     GetIntField(obj, <<"", "status", "replicas">>, 0),
                     GetIntField(obj, <<"", "status", "updatedReplicas">>, 0),
                     GetIntField(obj, <<"", "status", "readyReplicas">>, 0),
                     GetIntField(obj, <<"", "status", "availableReplicas">>, 0))

deploymentConditions(obj) ==
    deploymentDecide(GetIntField(obj, <<"", "status", "observedGeneration">>, -1),
                     GetIntField(obj, <<"", "metadata", "generation">>, -1),
                     deploymentScan(GetConditions(obj).elems, 1,
                                    [exceeded |-> FALSE, progress |-> FALSE, available |-> FALSE]),
                     GetIntField(obj, <<"", "spec", "replicas">>, 1),
                     GetIntField(obj, <<"", "status", "replicas">>, 0),
                     GetIntField(obj, <<"", "status", "updatedReplicas">>, 0),
                     GetIntField(obj, <<"", "status", "readyReplicas">>, 0),
                     GetIntField(obj, <<"", "status", "availableReplicas">>, 0))

\* replicaFailure looking at one entry only.
RECURSIVE replicaFailureFirstOnly(_, _)
replicaFailureFirstOnly(conditions, i) ==
    /\ i <= Len(conditions)
    /\ GetStringField(conditions[i], <<"", "type">>, "") = "ReplicaFailure"
    /\ GetStringField(conditions[i], <<"", "status">>, "") = "True"

\* The scan of status.conditions: is there a ReplicaFailure entry with status True?
RECURSIVE replicaFailure(_, _)
replicaFailure(conditions, i) ==
    IF i > Len(conditions) THEN FALSE
    ELSE IF GetStringField(conditions[i], <<"", "type">>, "") = "ReplicaFailure"
            /\ GetStringField(conditions[i], <<"", "status">>, "") = "True"
         THEN TRUE
         ELSE replicaFailure(conditions, i + 1)

replicasetDecide(observedGeneration, metaGeneration, failure, specReplicas, statusReplicas, readyReplicas, availableReplicas, labelledReplicas) ==
    IF ~generationObserved(observedGeneration, metaGeneration)
    THEN Ready1("False", GenerationMismatch)
    ELSE IF failure THEN Ready1("False", "Replica Failure condition. Check Pods")
    ELSE IF specReplicas = 0 /\ labelledReplicas = 0 /\ availableReplicas = 0 /\ readyReplicas = 0
    THEN Ready1("False", "Replica is 0")
    ELSE IF specReplicas > labelledReplicas
    THEN Ready1("False", "Waiting for all replicas to be fully-labeled. Labelled: "
                          \o d(labelledReplicas) \o "/" \o d(specReplicas))
    ELSE IF specReplicas > availableReplicas
    THEN Ready1("False", "Waiting for all replicas to be available. Available: "
                          \o d(availableReplicas) \o "/" \o d(specReplicas))
    ELSE IF specReplicas > readyReplicas
    THEN Ready1("False", "Waiting for all replicas to be ready. Ready: "
                          \o d(readyReplicas) \o "/" \o d(specReplicas))
    ELSE Ready1("True", "ReplicaSet is available. Replicas: " \o d(statusReplicas))

replicasetConditions(obj) ==
    replicasetDecide(GetIntField(obj, <<"", "status", "observedGeneration">>, -1),
                     GetIntField(obj, <<"", "metadata", "generation">>, -1),
                     replicaFailure(GetConditions(obj).elems, 1),
                     GetIntField(obj, <<"", "spec", "replicas">>, 1),
                     GetIntField(obj, <<"", "status", "replicas">>, 0),
                     GetIntField(obj, <<"", "status", "readyReplicas">>, 0),
                     GetIntField(obj, <<"", "status", "availableReplicas">>, 0),
                     GetIntField(obj, <<"", "status", "labelledReplicas">>, 0))

\* daemonsetDecide without the comparison with numberAvailable.
daemonsetDecideSkipsAvailable(observedGeneration, metaGeneration, desiredNumberScheduled, currentNumberScheduled, updatedNumberScheduled, numberAvailable, numberReady) ==
    IF ~generationObserved(observedGeneration, metaGeneration)
    THEN Ready1("False", GenerationMismatch)
    ELSE IF desiredNumberScheduled = -1 THEN Ready1("False", "Missing .status.desiredNumberScheduled")
    ELSE IF desiredNumberScheduled > currentNumberScheduled
    THEN Ready1("False", "Waiting for desired replicas to be scheduled. Current: "
                          \o d(currentNumberScheduled) \o "/" \o d(desiredNumberScheduled))
    ELSE IF desiredNumberScheduled > updatedNumberScheduled
    THEN Ready1("False", "Waiting for updated replicas to be scheduled. Updated: "
                          \o d(updatedNumberScheduled) \o "/" \o d(desiredNumberScheduled))
    ELSE IF desiredNumberScheduled > numberReady
    THEN Ready1("False", "Waiting for replicas to be ready. Ready: "
                          \o d(numberReady) \o "/" \o d(desiredNumberScheduled))
    ELSE Ready1("True", "All replicas scheduled as expected. Replicas: " \o d(desiredNumberScheduled))

daemonsetDecide(observedGeneration, metaGeneration, desiredNumberScheduled, currentNumberScheduled, updatedNumberScheduled, numberAvailable, numberReady) ==
    IF ~generationObserved(observedGeneration, metaGeneration)
    THEN Ready1("False", GenerationMismatch)
    ELSE IF desiredNumberScheduled = -1 THEN Ready1("False", "Missing .status.desiredNumberScheduled")
    ELSE IF desiredNumberScheduled > currentNumberScheduled
    THEN Ready1("False", "Waiting for desired replicas to be scheduled. Current: "
                          \o d(currentNumberScheduled) \o "/" \o d(desiredNumberScheduled))
    ELSE IF desiredNumberScheduled > updatedNumberScheduled
    THEN Ready1("False", "Waiting for updated replicas to be scheduled. Updated: "
                          \o d(updatedNumberScheduled) \o "/" \o d(desiredNumberScheduled))
    ELSE IF desiredNumberScheduled > numberAvailable
    THEN Ready1("False", "Waiting for replicas to be available. Available: "
                          \o d(numberAvailable) \o "/" \o d(desiredNumberScheduled))
    ELSE IF desiredNumberScheduled > numberReady
    THEN Ready1("False", "Waiting for replicas to be ready. Ready: "
                          \o d(numberReady) \o "/" \o d(desiredNumberScheduled))
    ELSE Ready1("True", "All replicas scheduled as expected. Replicas: " \o d(desiredNumberScheduled))

\* daemonsetConditions with status.desiredNumberScheduled defaulting to 0.
daemonsetConditionsDesiredZero(obj) ==
    daemonsetDecide(GetIntField(obj, <<"", "status", "observedGeneration">>, -1),
                    GetIntField(obj, <<"", "metadata", "generation">>, -1),
                    GetIntField(obj, <<"", "status", "desiredNumberScheduled">>, 0),
                    GetIntField(obj, <<"", "status", "currentNumberScheduled">>, 0),
                    GetIntField(obj, <<"", "status", "updatedNumberScheduled">>, 0),
                    GetIntField(obj, <<"", "status", "numberAvailable">>, 0),
                    GetIntField(obj, <<"", "status", "numberReady">>, 0))

daemonsetConditions(obj) ==
    daemonsetDecide(GetIntField(obj, <<"", "status", "observedGeneration">>, -1),
                    GetIntField(obj, <<"", "metadata", "generation">>, -1),
                    GetIntField(obj, <<"", "status", "desiredNumberScheduled">>, -1),
                    GetIntField(obj, <<"", "status", "currentNumberScheduled">>, 0),
                    GetIntField(obj, <<"", "status", "updatedNumberScheduled">>, 0),
                    GetIntField(obj, <<"", "status", "numberAvailable">>, 0),
                    GetIntField(obj, <<"", "status", "numberReady">>, 0))

pvcDecide(phase) ==
    IF phase # "Bound"
    THEN Ready1("False", "PVC is not Bound. phase: " \o phase)
    ELSE Ready1("True", "PVC is Bound")

pvcConditions(obj) == pvcDecide(GetStringField(obj, <<"", "status", "phase">>, "unknown"))

\* podReadyEntry without the override of a completed Pod's Ready status.
podReadyEntryNoOverride(status, reason, phase, st) ==
    IF status = "True"
    THEN [st EXCEPT !.readyCondition.Reason = reason, !.readyCondition.Status = "True"]
    ELSE IF reason = "PodCompleted"
         THEN [readyCondition |-> [st.readyCondition EXCEPT !.Reason = reason, !.Status = "False"],
               rv |-> IF phase = "Succeeded"
                      THEN Append(st.rv, NewCondition(ConditionCompleted, "Pod Succeeded"))
                      ELSE Append(st.rv, NewCondition(ConditionFailed, "Pod phase: " \o phase))]
         ELSE [st EXCEPT !.readyCondition.Reason = reason, !.readyCondition.Status = "False"]

\* One Ready entry of the Pod scan, read as (status, reason), applied to
\* (readyCondition, rv).
podReadyEntry(status, reason, phase, st) ==
    IF status = "True"
    THEN [st EXCEPT !.readyCondition.Reason = reason, !.readyCondition.Status = "True"]
    ELSE IF reason = "PodCompleted"
         THEN [readyCondition |-> [st.readyCondition EXCEPT !.Reason = reason, !.Status = "True"],
               rv |-> IF phase = "Succeeded"
                      THEN Append(st.rv, NewCondition(ConditionCompleted, "Pod Succeeded"))
                      ELSE Append(st.rv, NewCondition(ConditionFailed, "Pod phase: " \o phase))]
         ELSE [st EXCEPT !.readyCondition.Reason = reason, !.readyCondition.Status = "False"]

\* podScan leaving the loop after the first Ready entry.
RECURSIVE podScanFirstReady(_, _, _, _)
podScanFirstReady(conditions, i, phase, st) ==
    IF i > Len(conditions) THEN st
    ELSE IF GetStringField(conditions[i], <<"", "type">>, "") = "Ready"
         THEN podReadyEntry(GetStringField(conditions[i], <<"status">>, ""),
                            GetStringField(conditions[i], <<"reason">>, ""),
                            phase, st)
         ELSE podScanFirstReady(conditions, i + 1, phase, st)

RECURSIVE podScan(_, _, _, _)
podScan(conditions, i, phase, st) ==
    IF i > Len(conditions) THEN st
    ELSE IF GetStringField(conditions[i], <<"", "type">>, "") = "Ready"
         THEN podScan(conditions, i + 1, phase,
                      podReadyEntry(GetStringField(conditions[i], <<"status">>, ""),
                                    GetStringField(conditions[i], <<"reason">>, ""),
                                    phase, st))
         ELSE podScan(conditions, i + 1, phase, st)

\* The end of podConditions: the phase goes into the reason and Ready is appended.
podFinish(phase, st) ==
    Ok(Append(st.rv,
              [st.readyCondition EXCEPT
                  !.Reason = IF @ = "" THEN "Phase: " \o phase ELSE "Phase: " \o phase \o ", " \o @]))

podWithPhase(phase, conditions) ==
    podFinish(phase, podScan(conditions, 1, phase,
                             [readyCondition |-> NewFalseCondition(ConditionReady), rv |-> <<>>]))

podConditions(obj) ==
    podWithPhase(GetStringField(obj, <<"", "status", "phase">>, "unknown"), GetConditions(obj).elems)

pdbDecide(currentHealthy, desiredHealthy) ==
    IF desiredHealthy = -1 THEN Ready1("False", "Missing .status.desiredHealthy")
    ELSE IF desiredHealthy > currentHealthy
    THEN Ready1("False", "Budget not met. healthy replicas: "
                          \o d(currentHealthy) \o "/" \o d(desiredHealthy))
    ELSE Ready1("True", "Budget is met. Replicas: " \o d(currentHealthy) \o "/" \o d(desiredHealthy))

\* pdbConditions with the generation check of the workload evaluators.
pdbConditionsChecksGeneration(obj) ==
    IF ~generationObserved(GetIntField(obj, <<"", "status", "observedGeneration">>, -1),
                           GetIntField(obj, <<"", "metadata", "generation">>, -1))
    THEN Ready1("False", GenerationMismatch)
    ELSE pdbDecide(GetIntField(obj, <<"", "status", "currentHealthy">>, 0),
                   GetIntField(obj, <<"", "status", "desiredHealthy">>, -1))

pdbConditions(obj) ==
    pdbDecide(GetIntField(obj, <<"", "status", "currentHealthy">>, 0),
              GetIntField(obj, <<"", "status", "desiredHealthy">>, -1))

\* The two conditions a finished Job gets, sharing one message.
jobTerminal(ctype, message) == <<NewCondition(ConditionReady, message), NewCondition(ctype, message)>>

\* One entry of the Job scan, read as (type, status): the conditions returned from
\* inside the loop, or <<>> to go on.
jobEntry(type, status, succeeded, failed, completions) ==
    IF type = "Complete" /\ status = "True"
    THEN jobTerminal(ConditionCompleted,
                     "Job Completed. succeded: " \o d(succeeded) \o "/" \o d(completions))
    ELSE IF type = "Failed" /\ status = "True"
    THEN jobTerminal(ConditionFailed, "Job Failed. failed: " \o d(failed) \o "/" \o d(completions))
    ELSE <<>>

\* jobFirst going on after a finished entry.
jobFirstKeepsAll(found, rest) == found \o rest

\* The first entry the loop returns on, if any.
jobFirst(found, rest) == IF found # <<>> THEN found ELSE rest

RECURSIVE jobScan(_, _, _, _, _)
jobScan(conditions, i, succeeded, failed, completions) ==
    IF i > Len(conditions) THEN <<>>
    ELSE jobFirst(jobEntry(GetStringField(conditions[i], <<"", "type">>, ""),
                           GetStringField(conditions[i], <<"", "status">>, ""),
                           succeeded, failed, completions),
                  jobScan(conditions, i + 1, succeeded, failed, completions))

\* jobDecide looking at the start time before the conditions.
jobDecideStartFirst(scan, succeeded, active, failed, starttime) ==
    IF starttime = ""
    THEN Ok(<<False(NewCondition(ConditionReady, "Job not started"))>>)
    ELSE IF scan # <<>> THEN Ok(scan)
    ELSE Ok(<<NewCondition(ConditionReady,
                           "Job in progress. success:" \o d(succeeded) \o ", active: " \o d(active)
                               \o ", failed: " \o d(failed))>>)

jobDecide(scan, succeeded, active, failed, starttime) ==
    IF scan # <<>> THEN Ok(scan)
    ELSE IF starttime = ""
    THEN Ok(<<False(NewCondition(ConditionReady, "Job not started"))>>)
    ELSE Ok(<<NewCondition(ConditionReady,
                           "Job in progress. success:" \o d(succeeded) \o ", active: " \o d(active)
                               \o ", failed: " \o d(failed))>>)

jobWithCounts(conditions, completions, succeeded, active, failed, starttime) ==
    jobDecide(jobScan(conditions, 1, succeeded, failed, completions),
              succeeded, active, failed, starttime)

\* jobCompletions defaulting to 1 whatever the parallelism is.
jobCompletionsDefaultOne(obj, parallelism) == GetIntField(obj, <<"", "spec", "completions">>, 1)

\* completions defaults to parallelism
jobCompletions(obj, parallelism) == GetIntField(obj, <<"", "spec", "completions">>, parallelism)

jobConditions(obj) ==
    jobWithCounts(GetConditions(obj).elems,
                  jobCompletions(obj, GetIntField(obj, <<"", "spec", "parallelism">>, 1)),
                  GetIntField(obj, <<"", "status", "succeeded">>, 0),
                  GetIntField(obj, <<"", "status", "active">>, 0),
                  GetIntField(obj, <<"", "status", "failed">>, 0),
                  GetStringField(obj, <<"", "status", "startTime">>, ""))

\* serviceDecide without the test of the cluster IP.
serviceDecideIgnoresIP(specType, specClusterIP) ==
    IF specType = "LoadBalancer"
    THEN Ok(<<NewCondition(ConditionReady, "ClusterIP: " \o specClusterIP)>>)
    ELSE Ok(<<NewCondition(ConditionReady, "Always Ready. Service type: " \o specType)>>)

serviceDecide(specType, specClusterIP) ==
    IF specType = "LoadBalancer"
    THEN IF specClusterIP = ""
         THEN Ok(<<False(NewCondition(ConditionReady, "ClusterIP not set. Service type: LoadBalancer"))>>)
         ELSE Ok(<<NewCondition(ConditionReady, "ClusterIP: " \o specClusterIP)>>)
    ELSE Ok(<<NewCondition(ConditionReady, "Always Ready. Service type: " \o specType)>>)

serviceConditions(obj) ==
    serviceDecide(GetStringField(obj, <<"", "spec", "type">>, "ClusterIP"),
                  GetStringField(obj, <<"", "spec", "clusterIP">>, ""))

(***************************************************************************)
(* The generic evaluator                                                   *)
(***************************************************************************)
\* readyEntry taking every status but "True" as False.
readyEntryUnknownFalse(status, reason) ==
    IF status # "True"
    THEN False(NewCondition(ConditionReady, reason))
    ELSE NewCondition(ConditionReady, reason)

\* One Ready entry of the scan, read as (status, reason): the condition appended.
readyEntry(status, reason) ==
    IF status = "False"
    THEN False(NewCondition(ConditionReady, reason))
    ELSE NewCondition(ConditionReady, reason)

\* The loop over status.conditions: [rv, ready].
RECURSIVE readyScan(_, _, _)
readyScan(conditions, i, st) ==
    IF i > Len(conditions) THEN st
    ELSE IF GetStringField(conditions[i], <<"type">>, "") = "Ready"
         THEN readyScan(conditions, i + 1,
                        [rv |-> Append(st.rv, readyEntry(GetStringField(conditions[i], <<"status">>, ""),
                                                         GetStringField(conditions[i], <<"reason">>, ""))),
                         ready |-> TRUE])
         ELSE readyScan(conditions, i + 1, st)

\* readyObservedGeneration defaulting to -1 as the workload evaluators do.
readyObservedGenerationMinusOne(obj, metaGeneration) ==
    GetIntField(obj, <<"", "status", "observedGeneration">>, -1)

\* observedGeneration defaults to metaGeneration
readyObservedGeneration(obj, metaGeneration) ==
    GetIntField(obj, <<"", "status", "observedGeneration">>, metaGeneration)

\* readyFinish without the default.
readyFinishNoDefault(st) == Ok(st.rv)

\* readyFinish appending the default whether or not a Ready entry was met.
readyFinishAlwaysDefault(st) ==
    Ok(Append(st.rv, NewCondition(ConditionReady, "No Ready condition found")))

\* The end of readyConditionReader: the default when no Ready entry was met.
readyFinish(st) ==
    IF ~st.ready
    THEN Ok(Append(st.rv, NewCondition(ConditionReady, "No Ready condition found")))
    ELSE Ok(st.rv)

readyDecide(observedGeneration, metaGeneration, conditions) ==
    IF observedGeneration # metaGeneration
    THEN Ok(<<False(NewCondition(ConditionReady, GenerationMismatch))>>)
    ELSE readyFinish(readyScan(conditions, 1, [rv |-> <<>>, ready |-> FALSE]))

readyWithGeneration(obj, metaGeneration) ==
    readyDecide(readyObservedGeneration(obj, metaGeneration), metaGeneration,
                GetConditions(obj).elems)

readyConditionReader(obj) ==
    readyWithGeneration(obj, GetIntField(obj, <<"", "metadata", "generation">>, -1))

\* GetGenericReadyFn handing back no evaluator.
GetGenericReadyFnNone(obj) == Nil

GetGenericReadyFn(obj) == "readyConditionReader"

(***************************************************************************)
(* The registry and the dispatcher                                         *)
(***************************************************************************)
legacyTypes ==
    ("" :> ("Service" :> "serviceConditions"
            @@ "Pod" :> "podConditions"
            @@ "PersistentVolumeClaim" :> "pvcConditions"))
    @@ ("apps" :> ("StatefulSet" :> "stsConditions"
                   @@ "DaemonSet" :> "daemonsetConditions"
                   @@ "Deployment" :> "deploymentConditions"
                   @@ "ReplicaSet" :> "replicasetConditions"))
    @@ ("policy" :> ("PodDisruptionBudget" :> "pdbConditions"))
    @@ ("batch" :> ("CronJob" :> "alwaysReady"
                    @@ "Job" :> "jobConditions"))

\* schema.ParseGroupVersion on the apiVersion strings of the model: the text before
\* the single "/" is the group, the rest the version; more than one "/" is an error.
ParseGroupVersion(apiVersion) ==
    CASE apiVersion = "" -> [Group |-> "", Version |-> "", err |-> Nil]
      [] apiVersion = "v1" -> [Group |-> "", Version |-> "v1", err |-> Nil]
      [] apiVersion = "v2" -> [Group |-> "", Version |-> "v2", err |-> Nil]
      [] apiVersion = "apps/v1" -> [Group |-> "apps", Version |-> "v1", err |-> Nil]
      [] apiVersion = "apps/v1beta2" -> [Group |-> "apps", Version |-> "v1beta2", err |-> Nil]
      [] apiVersion = "policy/v1beta1" -> [Group |-> "policy", Version |-> "v1beta1", err |-> Nil]
      [] apiVersion = "batch/v1" -> [Group |-> "batch", Version |-> "v1", err |-> Nil]
      [] apiVersion = "batch/v1beta1" -> [Group |-> "batch", Version |-> "v1beta1", err |-> Nil]
      [] apiVersion = "extensions/v1beta1" -> [Group |-> "extensions", Version |-> "v1beta1", err |-> Nil]
      [] apiVersion = "example.com/v1" -> [Group |-> "example.com", Version |-> "v1", err |-> Nil]
      [] apiVersion = "a/b/c" -> [Group |-> "", Version |-> "", err |-> "unexpected GroupVersion string"]

\* Unstructured.GroupVersionKind: the empty GVK when apiVersion does not parse.
WithKind(gv, kind) ==
    IF gv.err # Nil THEN [Group |-> "", Version |-> "", Kind |-> ""]
    ELSE [Group |-> gv.Group, Version |-> gv.Version, Kind |-> kind]

GroupVersionKind(obj) ==
    WithKind(ParseGroupVersion(GetStringField(obj, <<"apiVersion">>, "")),
             GetStringField(obj, <<"kind">>, ""))

\* The lookup of GetLegacyReadyFn: the group's table, then the kind in it.
LegacyLookup(g, k) ==
    IF g \in DOMAIN legacyTypes /\ k \in DOMAIN legacyTypes[g] THEN legacyTypes[g][k] ELSE Nil

LegacyFnOf(gvk) == LegacyLookup(gvk.Group, gvk.Kind)

\* GetLegacyReadyFn looking the kind up in every group's table.
KindInAnyGroup(k) ==
    IF \E g \in DOMAIN legacyTypes : k \in DOMAIN legacyTypes[g]
    THEN legacyTypes[CHOOSE g \in DOMAIN legacyTypes : k \in DOMAIN legacyTypes[g]][k]
    ELSE Nil

GetLegacyReadyFnAnyGroup(obj) == KindInAnyGroup(GroupVersionKind(obj).Kind)

GetLegacyReadyFn(obj) == LegacyFnOf(GroupVersionKind(obj))

\* fn(u) for the evaluator a GetConditionsFn value names.
Call(fn, obj) ==
    CASE fn = "serviceConditions" -> serviceConditions(obj)
      [] fn = "podConditions" -> podConditions(obj)
      [] fn = "pvcConditions" -> pvcConditions(obj)
      [] fn = "stsConditions" -> stsConditions(obj)
      [] fn = "daemonsetConditions" -> daemonsetConditions(obj)
      [] fn = "deploymentConditions" -> deploymentConditions(obj)
      [] fn = "replicasetConditions" -> replicasetConditions(obj)
      [] fn = "pdbConditions" -> pdbConditions(obj)
      [] fn = "alwaysReady" -> alwaysReady(obj)
      [] fn = "jobConditions" -> jobConditions(obj)
      [] fn = "readyConditionReader" -> readyConditionReader(obj)

\* The evaluator IsReady selects.
\* fn := GetLegacyReadyFn(u); if fn == nil { fn = GetGenericReadyFn(u) }
OrGeneric(fn, obj) == IF fn = Nil THEN GetGenericReadyFn(obj) ELSE fn

SelectFn(obj) == OrGeneric(GetLegacyReadyFn(obj), obj)

\* The slice an evaluator built, as IsReady hands it on.
Returned(r) == [conds |-> MkSlice(r.conds), err |-> r.err]

\* if fn != nil { conditions, err = fn(u) }
IsReadyWith(fn, obj) ==
    IF fn # Nil THEN Returned(Call(fn, obj)) ELSE [conds |-> NilSlice, err |-> Nil]

IsReady(obj) == IsReadyWith(SelectFn(obj), obj)

(***************************************************************************)
(* Snapshots: the trees the object store may hand back                     *)
(***************************************************************************)
\* Sequences over S of length at most n.
RECURSIVE SeqsUpTo(_, _)
SeqsUpTo(S, n) ==
    IF n = 0 THEN {<<>>}
    ELSE LET shorter == SeqsUpTo(S, n - 1) IN
         shorter \cup {Append(s, e) : s \in {t \in shorter : Len(t) = n - 1}, e \in S}

\* Integers as the JSON decoder of unstructured objects stores them.
StatusInts == {Int64V(n) : n \in 0..MaxInt}
IntVals == {Absent} \cup StatusInts

\* (metadata.generation, status.observedGeneration)
GenPairs ==
    {<<Int64V(1), Int64V(1)>>, <<Int64V(2), Int64V(1)>>, <<Absent, Absent>>, <<Int64V(1), Absent>>}
GenericGenPairs == GenPairs \cup {<<Int64V(1), Absent>>, <<Absent, Int64V(1)>>}

Cond(type, status, reason) ==
    MapV(MkMap([type |-> StrV(type),
                status |-> IF status = "" THEN Absent ELSE StrV(status),
                reason |-> IF reason = "" THEN Absent ELSE StrV(reason)]))

CondLists(entries) == {ListV(l) : l \in SeqsUpTo(entries, MaxConds)}

Object(apiVersion, kind, metadata, spec, status) ==
    MkMap([apiVersion |-> StrV(apiVersion), kind |-> StrV(kind),
           metadata |-> MapV(MkMap(metadata)),
           spec |-> MapV(MkMap(spec)),
           status |-> MapV(MkMap(status))])

Name == StrV("test")

DeploymentCondEntries ==
    {Cond("Progressing", "True", "NewReplicaSetAvailable"),
     Cond("Progressing", "False", "ProgressDeadlineExceeded"),
     Cond("Available", "True", "MinimumReplicasAvailable")}

DeploymentSnapshots ==
    {Object("apps/v1", "Deployment",
            [name |-> Name, generation |-> g[1]],
            [replicas |-> sr],
            [observedGeneration |-> g[2], replicas |-> r, updatedReplicas |-> ur,
             readyReplicas |-> rr, availableReplicas |-> ar, conditions |-> cs]) :
        g \in GenPairs, sr \in IntVals, r \in StatusInts, ur \in StatusInts, rr \in StatusInts,
        ar \in StatusInts, cs \in CondLists(DeploymentCondEntries)}

StsSnapshots ==
    {Object("apps/v1", "StatefulSet",
            [name |-> Name, generation |-> g[1]],
            [replicas |-> sr,
             updateStrategy |-> MapV(MkMap([type |-> st,
                                            rollingUpdate |-> MapV(MkMap([partition |-> pt]))]))],
            [observedGeneration |-> g[2], replicas |-> r, readyReplicas |-> rr,
             currentReplicas |-> cr, updatedReplicas |-> ur,
             currentRevision |-> StrV("rev1"), updatedRevision |-> rev]) :
        g \in GenPairs, sr \in IntVals, pt \in IntVals \cup {Int64V(-1)},
        st \in {Absent, StrV("ondelete"), StrV("RollingUpdate")},
        r \in StatusInts, rr \in StatusInts, cr \in StatusInts, ur \in StatusInts,
        rev \in {StrV("rev1"), StrV("rev2")}}

ReplicasetCondEntries ==
    {Cond("ReplicaFailure", "True", "FailedCreate"), Cond("ReplicaFailure", "False", "")}

ReplicasetSnapshots ==
    {Object("apps/v1", "ReplicaSet",
            [name |-> Name, generation |-> g[1]],
            [replicas |-> sr],
            [observedGeneration |-> g[2], replicas |-> r, readyReplicas |-> rr,
             availableReplicas |-> ar, labelledReplicas |-> lr, conditions |-> cs]) :
        g \in GenPairs, sr \in IntVals, r \in StatusInts, rr \in StatusInts, ar \in StatusInts,
        lr \in StatusInts, cs \in CondLists(ReplicasetCondEntries)}

DaemonsetSnapshots ==
    {Object("apps/v1", "DaemonSet",
            [name |-> Name, generation |-> g[1]],
            <<>>,
            [observedGeneration |-> g[2], desiredNumberScheduled |-> dn,
             currentNumberScheduled |-> cn, updatedNumberScheduled |-> un,
             numberAvailable |-> na, numberReady |-> nr]) :
        g \in GenPairs, dn \in IntVals \cup {Int64V(-1)}, cn \in StatusInts, un \in StatusInts,
        na \in StatusInts, nr \in StatusInts}

PvcSnapshots ==
    {Object("v1", "PersistentVolumeClaim", [name |-> Name], <<>>, [phase |-> ph]) :
        ph \in {Absent, StrV("Bound"), StrV("Pending"), StrV("Lost")}}

PodCondEntries ==
    {Cond("Ready", "True", ""), Cond("Ready", "False", "PodCompleted"),
     Cond("Ready", "False", "ContainersNotReady"), Cond("Ready", "Unknown", "PodCompleted"),
     Cond("Initialized", "True", "")}

PodSnapshots ==
    {Object("v1", "Pod", [name |-> Name], <<>>, [phase |-> ph, conditions |-> cs]) :
        ph \in {Absent, StrV("Running"), StrV("Succeeded"), StrV("Failed")},
        cs \in {Absent} \cup CondLists(PodCondEntries)}

PdbSnapshots ==
    {Object("policy/v1beta1", "PodDisruptionBudget",
            [name |-> Name, generation |-> g[1]],
            <<>>,
            [observedGeneration |-> g[2], currentHealthy |-> ch, desiredHealthy |-> dh]) :
        g \in GenPairs, ch \in IntVals, dh \in IntVals \cup {Int64V(-1)}}

JobCondEntries ==
    {Cond("Complete", "True", ""), Cond("Failed", "True", "BackoffLimitExceeded"),
     Cond("Complete", "False", "")}

JobSnapshots ==
    {Object("batch/v1", "Job", [name |-> Name],
            [parallelism |-> pa, completions |-> co],
            [succeeded |-> su, failed |-> fa, active |-> Absent, startTime |-> stt,
             conditions |-> cs]) :
        pa \in {Absent, Int64V(2)}, co \in IntVals, su \in StatusInts, fa \in StatusInts,
        stt \in {Absent, StrV("2019-06-04T01:17:13Z")}, cs \in CondLists(JobCondEntries)}

CronJobSnapshots ==
    {Object("batch/v1beta1", "CronJob", [name |-> Name, generation |-> g[1]], <<>>,
            [observedGeneration |-> g[2]]) : g \in GenPairs}

ServiceSnapshots ==
    {Object("v1", "Service", [name |-> Name],
            [type |-> ty, clusterIP |-> ip], <<>>) :
        ty \in {Absent, StrV("ClusterIP"), StrV("NodePort"), StrV("LoadBalancer")},
        ip \in {Absent, StrV(""), StrV("1.2.3.4")}}

GenericCondEntries ==
    {Cond("Ready", "True", "All looks ok"), Cond("Ready", "False", ""),
     Cond("Ready", "Unknown", "Reconciling"), Cond("SomeCondition", "False", "")}

GenericSnapshots ==
    {Object("example.com/v1", "MyCR",
            [name |-> Name, generation |-> g[1]], <<>>,
            [observedGeneration |-> g[2], conditions |-> cs]) :
        g \in GenericGenPairs, cs \in {Absent} \cup CondLists(GenericCondEntries)}

\* Every apiVersion and kind, registered or not, over bodies with fields missing,
\* wrongly typed or malformed.
ApiVersions ==
    {Absent, StrV("v1"), StrV("v2"), StrV("apps/v1"), StrV("apps/v1beta2"),
     StrV("policy/v1beta1"), StrV("batch/v1"), StrV("batch/v1beta1"),
     StrV("extensions/v1beta1"), StrV("example.com/v1"), StrV("a/b/c"), Int64V(1)}

Kinds ==
    {Absent, Int64V(1), StrV("Service"), StrV("Pod"), StrV("PersistentVolumeClaim"),
     StrV("StatefulSet"), StrV("DaemonSet"), StrV("Deployment"), StrV("ReplicaSet"),
     StrV("PodDisruptionBudget"), StrV("CronJob"), StrV("Job"), StrV("MyCR")}

WrongTypedStatus ==
    MapV([observedGeneration |-> StrV("1"), replicas |-> FloatV(1), readyReplicas |-> StrV("1"),
          updatedReplicas |-> BoolV(TRUE), availableReplicas |-> Int8V(1),
          desiredNumberScheduled |-> FloatV(1), desiredHealthy |-> StrV("1"),
          phase |-> Int64V(1), startTime |-> Int64V(0),
          conditions |-> ListV(<<Cond("Ready", "False", "PodCompleted"), StrV("Ready")>>)])

EdgeBodies ==
    {[metadata |-> Absent, spec |-> Absent, status |-> Absent],
     [metadata |-> StrV("test"), spec |-> ListV(<<>>), status |-> StrV("Ready")],
     [metadata |-> MapV([generation |-> Int64V(1)]), spec |-> MapV(<<>>),
      status |-> MapV([observedGeneration |-> Int64V(2), conditions |-> StrV("Ready")])],
     [metadata |-> MapV([generation |-> FloatV(1)]),
      spec |-> MapV([replicas |-> StrV("1"), type |-> Int64V(1), updateStrategy |-> StrV("ondelete")]),
      status |-> WrongTypedStatus],
     [metadata |-> MapV([generation |-> Int64V(1)]), spec |-> MapV(<<>>),
      status |-> MapV([observedGeneration |-> Int64V(1),
                       conditions |-> ListV(<<MapV(<<>>), MapV([type |-> Int64V(1)]),
                                              MapV([type |-> StrV("Ready"), status |-> BoolV(TRUE),
                                                    reason |-> Int64V(1)])>>)])],
     [metadata |-> MapV([generation |-> Int64V(1)]), spec |-> MapV(<<>>),
      status |-> MapV([observedGeneration |-> Int64V(1),
                       conditions |-> ListV(<<Cond("Progressing", "False", "ProgressDeadlineExceeded"),
                                              Cond("Complete", "True", ""),
                                              Cond("ReplicaFailure", "True", "FailedCreate"),
                                              Cond("Ready", "True", "All looks ok"),
                                              Int64V(1)>>)])]}

EdgeSnapshots ==
    {MkMap([apiVersion |-> av, kind |-> k, metadata |-> b.metadata, spec |-> b.spec,
            status |-> b.status]) : av \in ApiVersions, k \in Kinds, b \in EdgeBodies}

\* u is one of the snapshots above.
IsSnapshot(x) ==
    \/ x \in DeploymentSnapshots
    \/ x \in StsSnapshots
    \/ x \in ReplicasetSnapshots
    \/ x \in DaemonsetSnapshots
    \/ x \in PvcSnapshots
    \/ x \in PodSnapshots
    \/ x \in PdbSnapshots
    \/ x \in JobSnapshots
    \/ x \in CronJobSnapshots
    \/ x \in ServiceSnapshots
    \/ x \in GenericSnapshots
    \/ x \in EdgeSnapshots

(***************************************************************************)
(* IsReady run on one snapshot                                             *)
(***************************************************************************)
NoResult == [conds |-> NilSlice, err |-> Nil]
NoReturn == [Resources |-> NilSlice, err |-> NilSlice]
NoCall == "none"

InitEval ==
    /\ IsSnapshot(u)
    /\ pc = "eval"
    /\ out = NoResult
    /\ ran = Nil
    /\ resources = <<>>
    /\ idx = 1
    /\ getErr = Nil
    /\ rs = EmptySlice
    /\ errs = NilSlice
    /\ getLog = <<>>
    /\ ret = NoReturn
    /\ call = NoCall
    /\ res = NoCall

Evaluate ==
    /\ pc = "eval"
    /\ out' = IsReady(u)
    /\ ran' = SelectFn(u)
    /\ pc' = "done"
    /\ UNCHANGED <<resources, idx, u, getErr, rs, errs, getLog, ret, call, res>>

NextEval == Evaluate

SpecEval == InitEval /\ [][NextEval]_vars

(***************************************************************************)
(* Status.Do: the batch loop                                               *)
(***************************************************************************)
Refs == {"ns/a", "ns/b"}
GetErrors == {"not found", "forbidden"}

\* The snapshots the object store holds while Do runs.
DoSnapshots ==
    {Object("apps/v1", "Deployment", [name |-> Name, generation |-> Int64V(1)],
            [replicas |-> Int64V(1)],
            [observedGeneration |-> Int64V(1), replicas |-> Int64V(1),
             updatedReplicas |-> Int64V(1), readyReplicas |-> Int64V(1),
             availableReplicas |-> Int64V(1),
             conditions |-> ListV(<<Cond("Progressing", "True", "NewReplicaSetAvailable"),
                                    Cond("Available", "True", "MinimumReplicasAvailable")>>)]),
     Object("v1", "Pod", [name |-> Name], <<>>,
            [phase |-> StrV("Succeeded"),
             conditions |-> ListV(<<Cond("Ready", "False", "PodCompleted")>>)]),
     Object("example.com/v1", "MyCR", [name |-> Name], <<>>,
            [conditions |-> ListV(<<Cond("Ready", "False", ""), Cond("Ready", "True", "All looks ok")>>)]),
     MkMap([apiVersion |-> StrV("apps/v1"), kind |-> StrV("DaemonSet"), status |-> StrV("Ready")])}

NilError == [isNil |-> TRUE, errors |-> <<>>]

\* errors.NewAggregate: nil for an empty list, else the list without its nil entries.
NotNil(e) == e # Nil
AggregateOf(kept) == IF Len(kept) = 0 THEN NilError ELSE [isNil |-> FALSE, errors |-> kept]
NewAggregate(errlist) == AggregateOf(SelectSeq(errlist, NotNil))

\* LoopBody that records nothing for a reference whose Get failed.
LoopBodyDropsFailed(curRs, curErrs, ref, gErr, r) ==
    IF gErr # Nil
    THEN [rs |-> curRs, errs |-> AppendSlice(curErrs, gErr), evaluated |-> FALSE]
    ELSE IF r.err # Nil
    THEN [rs |-> AppendSlice(curRs, [Resource |-> ref, Conditions |-> NilSlice, Error |-> r.err]),
          errs |-> AppendSlice(curErrs, r.err),
          evaluated |-> TRUE]
    ELSE [rs |-> AppendSlice(curRs, [Resource |-> ref, Conditions |-> r.conds, Error |-> Nil]),
          errs |-> curErrs,
          evaluated |-> TRUE]

\* LoopBody that records a failed Get in rs but not in errs.
LoopBodyForgetsError(curRs, curErrs, ref, gErr, r) ==
    IF gErr # Nil
    THEN [rs |-> AppendSlice(curRs, [Resource |-> ref, Conditions |-> NilSlice, Error |-> gErr]),
          errs |-> curErrs,
          evaluated |-> FALSE]
    ELSE IF r.err # Nil
    THEN [rs |-> AppendSlice(curRs, [Resource |-> ref, Conditions |-> NilSlice, Error |-> r.err]),
          errs |-> AppendSlice(curErrs, r.err),
          evaluated |-> TRUE]
    ELSE [rs |-> AppendSlice(curRs, [Resource |-> ref, Conditions |-> r.conds, Error |-> Nil]),
          errs |-> curErrs,
          evaluated |-> TRUE]

\* LoopBody that evaluates the reference even though its Get failed.
LoopBodyKeepsConditions(curRs, curErrs, ref, gErr, r) ==
    IF gErr # Nil
    THEN [rs |-> AppendSlice(curRs, [Resource |-> ref, Conditions |-> r.conds, Error |-> gErr]),
          errs |-> AppendSlice(curErrs, gErr),
          evaluated |-> FALSE]
    ELSE IF r.err # Nil
    THEN [rs |-> AppendSlice(curRs, [Resource |-> ref, Conditions |-> NilSlice, Error |-> r.err]),
          errs |-> AppendSlice(curErrs, r.err),
          evaluated |-> TRUE]
    ELSE [rs |-> AppendSlice(curRs, [Resource |-> ref, Conditions |-> r.conds, Error |-> Nil]),
          errs |-> curErrs,
          evaluated |-> TRUE]

\* The body of the range loop once Get has returned gErr for the reference ref:
\* the new rs and errs, and whether IsReady was called.  r is what IsReady returns
\* for the content fetched; it is used only when Get succeeded.
LoopBody(curRs, curErrs, ref, gErr, r) ==
    IF gErr # Nil
    THEN [rs |-> AppendSlice(curRs, [Resource |-> ref, Conditions |-> NilSlice, Error |-> gErr]),
          errs |-> AppendSlice(curErrs, gErr),
          evaluated |-> FALSE]
    ELSE IF r.err # Nil
    THEN [rs |-> AppendSlice(curRs, [Resource |-> ref, Conditions |-> NilSlice, Error |-> r.err]),
          errs |-> AppendSlice(curErrs, r.err),
          evaluated |-> TRUE]
    ELSE [rs |-> AppendSlice(curRs, [Resource |-> ref, Conditions |-> r.conds, Error |-> Nil]),
          errs |-> curErrs,
          evaluated |-> TRUE]

\* NextIndex leaving the loop on the first failure.
NextIndexAbortsOnFailure(i, failed, n) == IF failed THEN n + 1 ELSE i + 1

\* The range loop moves to the next reference whatever the body did.
NextIndex(i, failed, n) == i + 1

\* What Do returns once the loop is over.
DoResult(curRs, curErrs) ==
    IF Len(curErrs.elems) # 0
    THEN [Resources |-> curRs, err |-> NewAggregate(curErrs.elems)]
    ELSE [Resources |-> curRs, err |-> NilError]

InitDo ==
    /\ resources \in SeqsUpTo(Refs, MaxRefs)
    /\ idx = 1
    /\ pc = "loop"
    /\ u = <<>>
    /\ getErr = Nil
    /\ rs = EmptySlice
    /\ errs = NilSlice
    /\ getLog = <<>>
    /\ ret = NoReturn
    /\ out = NoResult
    /\ ran = Nil
    /\ call = NoCall
    /\ res = NoCall

\* a.DynamicClient.Get(ctx, name, u): the store fails, or fills u.
DoGet ==
    /\ pc = "loop"
    /\ idx <= Len(resources)
    /\ getLog' = Append(getLog, resources[idx])
    /\ \/ \E e \in GetErrors : getErr' = e /\ u' = <<>>
       \/ \E o \in DoSnapshots : getErr' = Nil /\ u' = o
    /\ pc' = "fetched"
    /\ UNCHANGED <<resources, idx, rs, errs, ret, out, ran, call, res>>

\* The rest of the loop body: record the failure, or evaluate and record.
DoRecord ==
    /\ pc = "fetched"
    /\ \E r \in {IsReady(u)} :
       \E b \in {LoopBody(rs, errs, resources[idx], getErr, r)} :
          /\ rs' = b.rs
          /\ errs' = b.errs
          /\ out' = IF b.evaluated THEN r ELSE out
          /\ ran' = IF b.evaluated THEN SelectFn(u) ELSE ran
          /\ idx' = NextIndex(idx, getErr # Nil, Len(resources))
    /\ pc' = "loop"
    /\ UNCHANGED <<resources, u, getErr, getLog, ret, call, res>>

DoReturn ==
    /\ pc = "loop"
    /\ idx > Len(resources)
    /\ ret' = DoResult(rs, errs)
    /\ pc' = "returned"
    /\ UNCHANGED <<resources, idx, u, getErr, rs, errs, getLog, out, ran, call, res>>

NextDo == DoGet \/ DoRecord \/ DoReturn

SpecDo == InitDo /\ [][NextDo]_vars

\* Do is one sequential call: while it has not returned it takes its next step.
SpecDoFair == SpecDo /\ WF_vars(NextDo)

(***************************************************************************)
(* The accessors of helpers.go called on a tree                            *)
(***************************************************************************)
\* The values a field may hold (helpers_test.go: testObj, and the types it lacks).
Leaves ==
    {Absent, IntV(22), Int32V(32), Int64V(64), Int8V(8), FloatV(64), StrV("dragon"), BoolV(TRUE),
     MapV([f1f2ms0f1 |-> IntV(22)]),
     ListV(<<>>),
     ListV(<<MapV([f1f2ms0f1 |-> IntV(22)]), MapV([f1f2ms1f1 |-> StrV("index1")])>>),
     ListV(<<MapV([f1f2ms0f1 |-> IntV(22)]), IntV(32)>>),
     ListV(<<StrV("index0"), MapV([f1f2ms1f1 |-> StrV("index1")])>>)}

\* testObj with the value v at f1.f2.v and at status.conditions, and the same
\* one level up; emptyObj.
Trees ==
    {<<>>}
    \cup {MkMap([f1 |-> MapV(MkMap([f2 |-> MapV(MkMap([v |-> l, i64 |-> Int64V(64)]))])),
                 ride |-> StrV("dragon"),
                 status |-> MapV(MkMap([conditions |-> l]))]) : l \in Leaves}
    \cup {MkMap([f1 |-> MapV(MkMap([f2 |-> l])), ride |-> StrV("dragon"), status |-> l]) :
             l \in Leaves}

\* Field paths as strings.Split(fieldPath, ".") returns them:
\* ".f1.f2.v", "f1.f2.v", ".f1.f2", ".f1.f2.wrongname", ".ride", ".ride.dragon", "".
FieldPaths ==
    {<<"", "f1", "f2", "v">>, <<"f1", "f2", "v">>, <<"", "f1", "f2">>,
     <<"", "f1", "f2", "wrongname">>, <<"", "ride">>, <<"", "ride", "dragon">>, <<"">>}

\* The variadic fields of NestedMapSlice.
FieldLists ==
    {<<"f1", "f2", "v">>, <<"f1", "f2">>, <<"f1", "f2", "wrongname">>, <<"status", "conditions">>,
     <<"ride", "dragon">>, <<"ride">>}

IntDefaults == {-1, 7}
StringDefaults == {"horse", ""}

InitHelpers ==
    /\ u \in Trees
    /\ \/ call \in [fn : {"GetIntField"}, fieldPath : FieldPaths, defaultValue : IntDefaults]
       \/ call \in [fn : {"GetStringField"}, fieldPath : FieldPaths, defaultValue : StringDefaults]
       \/ call \in [fn : {"NestedMapSlice"}, fieldPath : FieldLists, defaultValue : {Nil}]
       \/ call \in [fn : {"GetConditions"}, fieldPath : {<<>>}, defaultValue : {Nil}]
    /\ res = NoCall
    /\ pc = "call"
    /\ out = NoResult
    /\ ran = Nil
    /\ resources = <<>>
    /\ idx = 1
    /\ getErr = Nil
    /\ rs = EmptySlice
    /\ errs = NilSlice
    /\ getLog = <<>>
    /\ ret = NoReturn

CallGetIntField ==
    /\ pc = "call"
    /\ call.fn = "GetIntField"
    /\ res' = GetIntField(u, call.fieldPath, call.defaultValue)
    /\ pc' = "called"
    /\ UNCHANGED <<resources, idx, u, getErr, rs, errs, getLog, ret, out, ran, call>>

CallGetStringField ==
    /\ pc = "call"
    /\ call.fn = "GetStringField"
    /\ res' = GetStringField(u, call.fieldPath, call.defaultValue)
    /\ pc' = "called"
    /\ UNCHANGED <<resources, idx, u, getErr, rs, errs, getLog, ret, out, ran, call>>

CallNestedMapSlice ==
    /\ pc = "call"
    /\ call.fn = "NestedMapSlice"
    /\ res' = NestedMapSlice(u, call.fieldPath)
    /\ pc' = "called"
    /\ UNCHANGED <<resources, idx, u, getErr, rs, errs, getLog, ret, out, ran, call>>

CallGetConditions ==
    /\ pc = "call"
    /\ call.fn = "GetConditions"
    /\ res' = GetConditions(u)
    /\ pc' = "called"
    /\ UNCHANGED <<resources, idx, u, getErr, rs, errs, getLog, ret, out, ran, call>>

NextHelpers == CallGetIntField \/ CallGetStringField \/ CallNestedMapSlice \/ CallGetConditions

SpecHelpers == InitHelpers /\ [][NextHelpers]_vars

(***************************************************************************)
(* Properties of Status.Do                                                 *)
(***************************************************************************)
\* The errors of the entries that carry one, in entry order.
RECURSIVE ErrorsOf(_)
ErrorsOf(entries) ==
    IF entries = <<>> THEN <<>>
    ELSE IF entries[1].Error # Nil
         THEN <<entries[1].Error>> \o ErrorsOf(Tail1(entries))
         ELSE ErrorsOf(Tail1(entries))

Returned2 == pc = "returned" /\ Len(resources) = 2 /\ resources[1] # resources[2]

\* C1: Do returns a Result whose Resources list has exactly one entry per input
\* reference, entry i describing reference i; for no input the list is empty
\* (not nil) and the error nil.
DoKeepsEveryReference ==
    pc = "returned" =>
        /\ ~ret.Resources.isNil
        /\ Len(ret.Resources.elems) = Len(resources)
        /\ \A i \in 1..Len(resources) : ret.Resources.elems[i].Resource = resources[i]
        /\ (Len(resources) = 0 => ret.Resources = EmptySlice /\ ret.err = NilError)

\* Do has returned for two distinct references, the first evaluated and the
\* second refused by the store.
DoReturnedAfterLateFailure ==
    /\ Returned2
    /\ ret.Resources.elems[1].Error = Nil
    /\ ret.Resources.elems[2].Error = "forbidden"
    /\ ret.Resources.elems[2].Resource = resources[2]

\* C2: Get is called once per reference, in input order; the record of reference
\* i is made before reference i+1 is fetched, an evaluation following every Get
\* that succeeded; a failure on reference i does not keep the later references
\* from being fetched, and Do returns after the last one.
DoFetchesEachInOrder ==
    /\ [](/\ Len(getLog) <= Len(resources)
          /\ getLog = SubSeq(resources, 1, Len(getLog))
          /\ Len(getLog) = (IF pc = "fetched" THEN idx ELSE idx - 1)
          /\ Len(rs.elems) = idx - 1
          /\ (pc # "fetched" /\ idx > 1 /\ getErr = Nil =>
                 /\ rs.elems[idx - 1].Conditions = IsReady(u).conds
                 /\ out = IsReady(u)))
    /\ <>(pc = "returned" /\ getLog = resources /\ Len(ret.Resources.elems) = Len(resources))

\* Do has returned after a failed first Get and an evaluated second reference.
DoReturnedAfterEarlyFailure ==
    /\ Returned2
    /\ getLog = resources
    /\ ret.Resources.elems[1].Error = "not found"
    /\ ret.Resources.elems[2].Error = Nil
    /\ ret.Resources.elems[2].Conditions = IsReady(u).conds

\* C3: Do returns a non-nil aggregate error exactly when some item failed; the
\* aggregate holds the errors of the failed items in input order, a failed Get
\* being the error of its item, and comes with the full Result.
DoAggregatesItemErrors ==
    /\ errs.elems = ErrorsOf(rs.elems)
    /\ (pc # "fetched" /\ idx > 1 /\ getErr # Nil => rs.elems[idx - 1].Error = getErr)
    /\ (pc = "returned" =>
           /\ ret.Resources = rs
           /\ Len(ret.Resources.elems) = Len(resources)
           /\ (ret.err.isNil <=> \A i \in 1..Len(resources) : ret.Resources.elems[i].Error = Nil)
           /\ ret.err.errors = ErrorsOf(ret.Resources.elems))

\* Do has returned two different errors for two references.
DoReturnedTwoErrors ==
    /\ Returned2
    /\ ret.err = [isNil |-> FALSE, errors |-> <<"forbidden", "not found">>]
    /\ Len(ret.Resources.elems) = 2

\* C4: every ResourceStatus has either an Error and no condition, or no Error and
\* at least one condition; a reference whose Get failed has the former.
DoEntryErrorOrConditions ==
    /\ \A i \in 1..Len(rs.elems) :
          \/ rs.elems[i].Error # Nil /\ Len(rs.elems[i].Conditions.elems) = 0
          \/ rs.elems[i].Error = Nil /\ Len(rs.elems[i].Conditions.elems) >= 1
    /\ (pc # "fetched" /\ idx > 1 /\ getErr # Nil =>
           rs.elems[idx - 1].Error # Nil /\ Len(rs.elems[idx - 1].Conditions.elems) = 0)
    /\ (pc = "returned" => ret.Resources = rs)

\* Do has returned one entry with an error only and one with two conditions.
DoReturnedBothShapes ==
    /\ Returned2
    /\ ret.Resources.elems[1].Error # Nil
    /\ ret.Resources.elems[1].Conditions.elems = <<>>
    /\ ret.Resources.elems[2].Error = Nil
    /\ Len(ret.Resources.elems[2].Conditions.elems) = 2

(***************************************************************************)
(* Properties of IsReady and the evaluators                                *)
(***************************************************************************)
\* The value stored in the snapshot at a path, Absent when there is none.
Raw(obj, fields) == NestedFieldNoCopy(obj, fields).val

IsInteger(v) == IsA(v, "int") \/ IsA(v, "int32") \/ IsA(v, "int64")
IntegerOf(v) == IF IsA(v, "int") THEN v.int ELSE IF IsA(v, "int32") THEN v.int32 ELSE v.int64

\* The entries of status.conditions as stored, <<>> when it is not a list.
RawConditions(obj) ==
    IF IsA(Raw(obj, <<"status", "conditions">>), "list")
    THEN Raw(obj, <<"status", "conditions">>).list
    ELSE <<>>

\* A stored condition entry with the given type, and with the given reason.
HasType(c, type) == IsA(c, "map") /\ "type" \in DOMAIN c.map /\ c.map.type = StrV(type)
HasReason(c, reason) == IsA(c, "map") /\ "reason" \in DOMAIN c.map /\ c.map.reason = StrV(reason)
HasStatus(c, status) == IsA(c, "map") /\ "status" \in DOMAIN c.map /\ c.map.status = StrV(status)

Count(seq, Test(_)) == Cardinality({i \in 1..Len(seq) : Test(seq[i])})
CountType(conds, ctype) == Cardinality({i \in 1..Len(conds) : conds[i].Type = ctype})

\* The conditions IsReady returned hold a Ready condition, and every one is False.
ReadyIsFalse ==
    /\ CountType(out.conds.elems, ConditionReady) >= 1
    /\ \A i \in 1..Len(out.conds.elems) :
          out.conds.elems[i].Type = ConditionReady => out.conds.elems[i].Status = "False"

\* metadata.generation and status.observedGeneration are both stored as integers
\* and differ.
GenerationsDiffer ==
    /\ IsInteger(Raw(u, <<"metadata", "generation">>))
    /\ IsInteger(Raw(u, <<"status", "observedGeneration">>))
    /\ IntegerOf(Raw(u, <<"metadata", "generation">>))
           # IntegerOf(Raw(u, <<"status", "observedGeneration">>))

GenerationCheckers ==
    {"stsConditions", "deploymentConditions", "replicasetConditions", "daemonsetConditions",
     "readyConditionReader"}

IsOndelete == Raw(u, <<"spec", "updateStrategy", "type">>) = StrV("ondelete")

\* C5 (as stated): for each evaluator that checks the generation, when
\* metadata.generation and status.observedGeneration are both present and differ,
\* the Ready condition is False whatever the other fields are.
GenerationMismatchNotReady ==
    pc = "done" /\ ran \in GenerationCheckers /\ GenerationsDiffer => ReadyIsFalse

\* C5 (amended): the same, except for a StatefulSet whose update strategy is
\* "ondelete"; the evaluator then returns the single condition Ready=False with
\* the generation-mismatch reason.
GenerationMismatchNotReadyUnlessOndelete ==
    pc = "done" /\ ran \in GenerationCheckers /\ GenerationsDiffer
        /\ ~(ran = "stsConditions" /\ IsOndelete)
    => /\ ReadyIsFalse
       /\ out.conds.elems = <<[Type |-> ConditionReady, Status |-> "False",
                               Reason |-> GenerationMismatch]>>

\* A Deployment with every replica ready and both conditions True, evaluated with
\* an unobserved generation.
StaleHealthyDeploymentEvaluated ==
    /\ pc = "done" /\ ran = "deploymentConditions" /\ GenerationsDiffer
    /\ Raw(u, <<"status", "readyReplicas">>) = Int64V(1)
    /\ Raw(u, <<"status", "updatedReplicas">>) = Int64V(1)
    /\ Raw(u, <<"status", "availableReplicas">>) = Int64V(1)
    /\ Raw(u, <<"status", "replicas">>) = Int64V(1)
    /\ RawConditions(u) = <<Cond("Progressing", "True", "NewReplicaSetAvailable"),
                            Cond("Available", "True", "MinimumReplicasAvailable")>>
    /\ ReadyIsFalse

IsReadyEntry(c) == HasType(c, "Ready")
IsPodCompletedEntry(c) ==
    HasType(c, "Ready") /\ ~HasStatus(c, "True") /\ HasReason(c, "PodCompleted")

AtMostOnePerType == \A t \in ConditionTypes : CountType(out.conds.elems, t) <= 1

\* C6 (as stated): every evaluator returns at most one condition of each
\* ConditionType, also when status.conditions holds several Ready entries.
OneConditionPerType == pc = "done" => AtMostOnePerType

\* C6 (amended): every evaluator but the generic one and the Pod one returns at
\* most one condition of each type.  The generic evaluator returns Ready
\* conditions only: one per Ready entry of status.conditions, or one when there is
\* none or the generation is unobserved.  The Pod evaluator returns exactly one
\* Ready condition, last, before it one terminal condition per Ready entry that is
\* not True and has reason PodCompleted, all of one type.
OneConditionPerTypeButGenericAndPod ==
    pc = "done" =>
        /\ ran \notin {"readyConditionReader", "podConditions"} => AtMostOnePerType
        /\ ran = "readyConditionReader" =>
              /\ CountType(out.conds.elems, ConditionReady) = Len(out.conds.elems)
              /\ Len(out.conds.elems) =
                    IF GetIntField(u, <<"", "status", "observedGeneration">>,
                                   GetIntField(u, <<"", "metadata", "generation">>, -1))
                           # GetIntField(u, <<"", "metadata", "generation">>, -1)
                       \/ Count(GetConditions(u).elems, LAMBDA c : IsReadyEntry(MapV(c))) = 0
                    THEN 1
                    ELSE Count(GetConditions(u).elems, LAMBDA c : IsReadyEntry(MapV(c)))
        /\ ran = "podConditions" =>
              /\ CountType(out.conds.elems, ConditionReady) = 1
              /\ out.conds.elems[Len(out.conds.elems)].Type = ConditionReady
              /\ CountType(out.conds.elems, ConditionSettled) = 0
              /\ CountType(out.conds.elems, ConditionCompleted) = 0
                     \/ CountType(out.conds.elems, ConditionFailed) = 0
              /\ Len(out.conds.elems) =
                     1 + Count(GetConditions(u).elems, LAMBDA c : IsPodCompletedEntry(MapV(c)))

\* The generic evaluator has run on three Ready entries and returned three Ready
\* conditions.
GenericThreeReadyEvaluated ==
    /\ pc = "done" /\ ran = "readyConditionReader"
    /\ Len(RawConditions(u)) = 3
    /\ \A i \in 1..3 : IsReadyEntry(RawConditions(u)[i])
    /\ Len(out.conds.elems) = 3

\* C7: IsReady is total: on every snapshot, whatever is missing, wrongly typed or
\* malformed, it selects an evaluator, returns a nil error and a list holding a
\* Ready condition with status "True" or "False".
IsReadyTotal ==
    pc = "done" =>
        /\ ran # Nil
        /\ out.err = Nil
        /\ ~out.conds.isNil
        /\ \E i \in 1..Len(out.conds.elems) :
              /\ out.conds.elems[i].Type = ConditionReady
              /\ out.conds.elems[i].Status \in {"True", "False"}

\* IsReady has run on a snapshot without a parsable apiVersion whose status is
\* wrongly typed throughout.
MalformedEvaluated ==
    /\ pc = "done"
    /\ "apiVersion" \in DOMAIN u /\ u.apiVersion = StrV("a/b/c")
    /\ "status" \in DOMAIN u /\ u.status = WrongTypedStatus
    /\ ran = "readyConditionReader"
    /\ out.err = Nil

\* The API group of each apiVersion that parses.
GroupOfApiVersion ==
    ("" :> "") @@ ("v1" :> "") @@ ("v2" :> "") @@ ("apps/v1" :> "apps")
    @@ ("apps/v1beta2" :> "apps") @@ ("policy/v1beta1" :> "policy") @@ ("batch/v1" :> "batch")
    @@ ("batch/v1beta1" :> "batch") @@ ("extensions/v1beta1" :> "extensions")
    @@ ("example.com/v1" :> "example.com")

\* The registered (group, kind) pairs and the evaluator of each.
Registered ==
    (<<"", "Service">> :> "serviceConditions") @@ (<<"", "Pod">> :> "podConditions")
    @@ (<<"", "PersistentVolumeClaim">> :> "pvcConditions")
    @@ (<<"apps", "StatefulSet">> :> "stsConditions")
    @@ (<<"apps", "DaemonSet">> :> "daemonsetConditions")
    @@ (<<"apps", "Deployment">> :> "deploymentConditions")
    @@ (<<"apps", "ReplicaSet">> :> "replicasetConditions")
    @@ (<<"policy", "PodDisruptionBudget">> :> "pdbConditions")
    @@ (<<"batch", "CronJob">> :> "alwaysReady") @@ (<<"batch", "Job">> :> "jobConditions")

\* The apiVersion and kind strings of the snapshot, "" when not stored as strings.
ApiVersionOf(obj) == IF IsA(Raw(obj, <<"apiVersion">>), "str") THEN Raw(obj, <<"apiVersion">>).str ELSE ""
KindOf(obj) == IF IsA(Raw(obj, <<"kind">>), "str") THEN Raw(obj, <<"kind">>).str ELSE ""

\* The evaluator the (group, kind) pair of the snapshot calls for.
Expected(obj) ==
    IF ApiVersionOf(obj) \in DOMAIN GroupOfApiVersion
       /\ <<GroupOfApiVersion[ApiVersionOf(obj)], KindOf(obj)>> \in DOMAIN Registered
    THEN Registered[<<GroupOfApiVersion[ApiVersionOf(obj)], KindOf(obj)>>]
    ELSE "readyConditionReader"

\* C8: IsReady runs the dedicated evaluator exactly when the (group, kind) pair of
\* the snapshot is registered and the generic evaluator for every other pair; the
\* version of the API does not influence the choice.
DispatchByGroupAndKind ==
    pc = "done" =>
        /\ ran = Expected(u)
        /\ out.conds.elems = Call(Expected(u), u).conds
        /\ \A av \in DOMAIN GroupOfApiVersion :
              ApiVersionOf(u) \in DOMAIN GroupOfApiVersion
                  /\ GroupOfApiVersion[av] = GroupOfApiVersion[ApiVersionOf(u)]
                  => SelectFn([k \in DOMAIN u \cup {"apiVersion"} |->
                                  IF k = "apiVersion" THEN StrV(av) ELSE u[k]]) = ran

\* A Deployment of the extensions group has been handed to the generic evaluator.
ExtensionsDeploymentEvaluated ==
    /\ pc = "done"
    /\ ApiVersionOf(u) = "extensions/v1beta1"
    /\ KindOf(u) = "Deployment"
    /\ ran = "readyConditionReader"

IsDeadlineEntry(c) == HasType(c, "Progressing") /\ HasReason(c, "ProgressDeadlineExceeded")

\* C9: a Deployment whose status.conditions holds, at any position, a Progressing
\* entry with reason ProgressDeadlineExceeded is not Ready, whatever the replica
\* counts and the other conditions are.
DeadlineExceededNotReady ==
    pc = "done" /\ ran = "deploymentConditions"
        /\ (\E i \in 1..Len(RawConditions(u)) : IsDeadlineEntry(RawConditions(u)[i]))
    => ReadyIsFalse

\* A Deployment with its generation observed, every replica ready, a rolled-out
\* ReplicaSet and Available True, whose last condition reports the deadline.
DeadlineAfterHealthyEvaluated ==
    /\ pc = "done" /\ ran = "deploymentConditions" /\ ~GenerationsDiffer
    /\ Raw(u, <<"spec", "replicas">>) = Int64V(1)
    /\ Raw(u, <<"status", "readyReplicas">>) = Int64V(1)
    /\ Raw(u, <<"status", "updatedReplicas">>) = Int64V(1)
    /\ Raw(u, <<"status", "availableReplicas">>) = Int64V(1)
    /\ Raw(u, <<"status", "replicas">>) = Int64V(1)
    /\ RawConditions(u) = <<Cond("Progressing", "True", "NewReplicaSetAvailable"),
                            Cond("Available", "True", "MinimumReplicasAvailable"),
                            Cond("Progressing", "False", "ProgressDeadlineExceeded")>>
    /\ out.conds.elems = <<[Type |-> ConditionReady, Status |-> "False",
                            Reason |-> "Progress Deadline exceeded"]>>

\* C10: a StatefulSet whose spec.updateStrategy.type is "ondelete" gets exactly one
\* condition, Ready=True with reason "ondelete strategy", whatever its generation,
\* replica counts, partition and revisions are.
OndeleteAlwaysReady ==
    pc = "done" /\ ran = "stsConditions" /\ IsOndelete
    => /\ out.err = Nil
       /\ out.conds = MkSlice(<<[Type |-> ConditionReady, Status |-> "True",
                                 Reason |-> "ondelete strategy"]>>)

\* An "ondelete" StatefulSet evaluated with an unobserved generation, no ready
\* replica, a partition and differing revisions.
StaleOndeleteEvaluated ==
    /\ pc = "done" /\ ran = "stsConditions" /\ IsOndelete /\ GenerationsDiffer
    /\ Raw(u, <<"spec", "replicas">>) = Int64V(1)
    /\ Raw(u, <<"status", "readyReplicas">>) = Int64V(0)
    /\ Raw(u, <<"spec", "updateStrategy", "rollingUpdate", "partition">>) = Int64V(1)
    /\ Raw(u, <<"status", "updatedRevision">>) = StrV("rev2")
    /\ out.conds.elems[1].Status = "True"

(***************************************************************************)
(* Properties of the accessors                                             *)
(***************************************************************************)
\* What the tree holds at the path of the call, the leading dot left out.
Stored ==
    NestedFieldNoCopy(u, IF call.fieldPath # <<>> /\ Head(call.fieldPath) = ""
                         THEN Tail(call.fieldPath) ELSE call.fieldPath)

WrongForInt == {"float64", "str", "bool", "map", "list"}

\* C14: GetIntField and GetStringField return the default when the path is absent,
\* when a segment before its end is not a map, and when the value has the wrong
\* type (not a string; a float, string, boolean, map or list for GetIntField), and
\* the stored value when it has the right type.
AccessorsDefault ==
    /\ pc = "called" /\ call.fn = "GetStringField" =>
          res = (IF Stored.found /\ IsA(Stored.val, "str") THEN Stored.val.str
                 ELSE call.defaultValue)
    /\ pc = "called" /\ call.fn = "GetIntField" =>
          /\ ~Stored.found => res = call.defaultValue
          /\ Stored.found /\ (\E t \in WrongForInt : IsA(Stored.val, t)) => res = call.defaultValue
          /\ Stored.found /\ IsInteger(Stored.val) => res = IntegerOf(Stored.val)

\* GetIntField has been called with a path that runs through a string and has
\* returned the default.
IntThroughStringCalled ==
    /\ pc = "called" /\ call.fn = "GetIntField"
    /\ call.fieldPath = <<"", "ride", "dragon">>
    /\ "ride" \in DOMAIN u
    /\ Stored.err # Nil
    /\ res = 7

AnyWidthInteger(v) == IsInteger(v) \/ IsA(v, "int8")
AnyWidthIntegerOf(v) == IF IsA(v, "int8") THEN v.int8 ELSE IntegerOf(v)

\* C15: GetIntField returns the stored number for a value of an integer type of
\* any width, and the default only when the value is absent or not an integer.
IntFieldAnyWidth ==
    pc = "called" /\ call.fn = "GetIntField" =>
        res = (IF Stored.found /\ AnyWidthInteger(Stored.val) THEN AnyWidthIntegerOf(Stored.val)
               ELSE call.defaultValue)

\* The stored value is a list, and every element of it is a map.
IsMapList(v) == IsA(v, "list") /\ \A i \in 1..Len(v.list) : IsA(v.list[i], "map")
MapsOf(v) == [i \in 1..Len(v.list) |-> v.list[i].map]

\* What the tree holds at the fields of a NestedMapSlice call.
StoredAt == NestedFieldNoCopy(u, call.fieldPath)

NoValueWithError == ~(~res.val.isNil /\ res.err # Nil)

\* C19 (as stated): NestedMapSlice returns (nil, false, nil) when the path is
\* absent, (nil, true, error) when the value is not a list of maps, and (the maps
\* in order, true, nil) otherwise; found=false never comes with an error, nor a
\* non-nil value with an error.
MapSliceThreeOutcomes ==
    pc = "called" /\ call.fn = "NestedMapSlice" =>
        /\ ~StoredAt.found => res = [val |-> NilSlice, found |-> FALSE, err |-> Nil]
        /\ StoredAt.found /\ ~IsMapList(StoredAt.val) =>
              res.val = NilSlice /\ res.found /\ res.err # Nil
        /\ StoredAt.found /\ IsMapList(StoredAt.val) =>
              res = [val |-> MkSlice(MapsOf(StoredAt.val)), found |-> TRUE, err |-> Nil]
        /\ ~(~res.found /\ res.err # Nil)
        /\ NoValueWithError

\* C19 (amended): the same three outcomes, and a fourth: (nil, false, error) when a
\* segment before the end of the path holds a value that is not a map.
MapSliceFourOutcomes ==
    pc = "called" /\ call.fn = "NestedMapSlice" =>
        /\ ~StoredAt.found /\ StoredAt.err = Nil =>
              res = [val |-> NilSlice, found |-> FALSE, err |-> Nil]
        /\ ~StoredAt.found /\ StoredAt.err # Nil =>
              res = [val |-> NilSlice, found |-> FALSE, err |-> StoredAt.err]
        /\ StoredAt.found /\ ~IsMapList(StoredAt.val) =>
              res.val = NilSlice /\ res.found /\ res.err # Nil
        /\ StoredAt.found /\ IsMapList(StoredAt.val) =>
              res = [val |-> MkSlice(MapsOf(StoredAt.val)), found |-> TRUE, err |-> Nil]
        /\ NoValueWithError

\* NestedMapSlice has been called on a list whose second element is not a map.
MapSliceOnBadListCalled ==
    /\ pc = "called" /\ call.fn = "NestedMapSlice"
    /\ StoredAt.found /\ IsA(StoredAt.val, "list") /\ Len(StoredAt.val.list) = 2
    /\ IsA(StoredAt.val.list[1], "map") /\ ~IsA(StoredAt.val.list[2], "map")
    /\ res.err # Nil /\ res.val = NilSlice

(***************************************************************************)
(* Properties of the single evaluators                                     *)
(***************************************************************************)
\* The string or integer stored at a path, the default when there is none.
StringAt(obj, fields, default) == IF IsA(Raw(obj, fields), "str") THEN Raw(obj, fields).str ELSE default
IntAt(obj, fields, default) == IF IsInteger(Raw(obj, fields)) THEN IntegerOf(Raw(obj, fields)) ELSE default

\* The entries of status.conditions when it is a list of maps, <<>> otherwise.
Entries(obj) ==
    IF IsMapList(Raw(obj, <<"status", "conditions">>))
    THEN Raw(obj, <<"status", "conditions">>).list
    ELSE <<>>

OutIs(conds) == out.err = Nil /\ out.conds = MkSlice(conds)
Cnd(type, status, reason) == [Type |-> type, Status |-> status, Reason |-> reason]

Phase == StringAt(u, <<"status", "phase">>, "unknown")

IsCompletedPodEntry(c) == HasType(c, "Ready") /\ HasStatus(c, "False") /\ HasReason(c, "PodCompleted")

\* What the claim says of the conditions returned for a completed Pod.
CompletedPodOutput ==
    /\ \E i \in 1..Len(out.conds.elems) :
          out.conds.elems[i] = Cnd(ConditionReady, "True", "Phase: " \o Phase \o ", PodCompleted")
    /\ \A i \in 1..Len(out.conds.elems) :
          out.conds.elems[i].Type = ConditionReady => out.conds.elems[i].Status = "True"
    /\ Phase = "Succeeded" =>
          /\ \E i \in 1..Len(out.conds.elems) :
                out.conds.elems[i].Type = ConditionCompleted /\ out.conds.elems[i].Status = "True"
          /\ CountType(out.conds.elems, ConditionFailed) = 0
    /\ Phase # "Succeeded" =>
          /\ \E i \in 1..Len(out.conds.elems) :
                out.conds.elems[i] = Cnd(ConditionFailed, "True", "Pod phase: " \o Phase)
          /\ CountType(out.conds.elems, ConditionCompleted) = 0

\* C11 (as stated): a Pod whose status.conditions holds a Ready entry with status
\* False and reason PodCompleted is Ready=True with reason
\* "Phase: <phase>, PodCompleted", with a Completed condition and no Failed one
\* when the phase is Succeeded, and a Failed condition with reason
\* "Pod phase: <phase>" and no Completed one otherwise.
CompletedPodReady ==
    pc = "done" /\ ran = "podConditions"
        /\ (\E i \in 1..Len(RawConditions(u)) : IsCompletedPodEntry(RawConditions(u)[i]))
    => CompletedPodOutput

\* C11 (amended): the same for a Pod whose status.conditions is a list of maps in
\* which the last Ready entry has status False and reason PodCompleted.
LastEntryCompletedPodReady ==
    pc = "done" /\ ran = "podConditions"
        /\ (\E i \in 1..Len(Entries(u)) :
               /\ IsCompletedPodEntry(Entries(u)[i])
               /\ \A j \in (i + 1)..Len(Entries(u)) : ~HasType(Entries(u)[j], "Ready"))
    => CompletedPodOutput

\* A Failed Pod whose Ready entry reports PodCompleted has been evaluated.
FailedCompletedPodEvaluated ==
    /\ pc = "done" /\ ran = "podConditions"
    /\ Phase = "Failed"
    /\ Entries(u) = <<Cond("Initialized", "True", ""), Cond("Ready", "False", "PodCompleted")>>
    /\ OutIs(<<Cnd(ConditionFailed, "True", "Pod phase: Failed"),
               Cnd(ConditionReady, "True", "Phase: Failed, PodCompleted")>>)

Completions ==
    IntAt(u, <<"spec", "completions">>, IntAt(u, <<"spec", "parallelism">>, 1))
JobCompletedText ==
    "Job Completed. succeded: " \o ToString(IntAt(u, <<"status", "succeeded">>, 0))
        \o "/" \o ToString(Completions)
JobFailedText ==
    "Job Failed. failed: " \o ToString(IntAt(u, <<"status", "failed">>, 0))
        \o "/" \o ToString(Completions)

IsCompleteTrue(c) == HasType(c, "Complete") /\ HasStatus(c, "True")
IsFailedTrue(c) == HasType(c, "Failed") /\ HasStatus(c, "True")

\* C12 (as stated): a Job with a Complete entry of status True gets exactly
\* [Ready=True, Completed=True], a Job with a Failed entry of status True exactly
\* [Ready=True, Failed=True], the two conditions sharing a reason built from
\* status.succeeded (status.failed) and completions, which defaults to
\* spec.parallelism, which defaults to 1.
FinishedJobOutput ==
    pc = "done" /\ ran = "jobConditions" =>
        /\ (\E i \in 1..Len(RawConditions(u)) : IsCompleteTrue(RawConditions(u)[i])) =>
              OutIs(<<Cnd(ConditionReady, "True", JobCompletedText),
                      Cnd(ConditionCompleted, "True", JobCompletedText)>>)
        /\ (\E i \in 1..Len(RawConditions(u)) : IsFailedTrue(RawConditions(u)[i])) =>
              OutIs(<<Cnd(ConditionReady, "True", JobFailedText),
                      Cnd(ConditionFailed, "True", JobFailedText)>>)

\* C12 (amended): the same, decided by the first entry of a list of maps that is
\* Complete or Failed with status True.
FirstFinishedEntryJobOutput ==
    pc = "done" /\ ran = "jobConditions" =>
        \A i \in 1..Len(Entries(u)) :
            (\A j \in 1..(i - 1) : ~IsCompleteTrue(Entries(u)[j]) /\ ~IsFailedTrue(Entries(u)[j])) =>
                /\ IsCompleteTrue(Entries(u)[i]) =>
                      OutIs(<<Cnd(ConditionReady, "True", JobCompletedText),
                              Cnd(ConditionCompleted, "True", JobCompletedText)>>)
                /\ IsFailedTrue(Entries(u)[i]) =>
                      OutIs(<<Cnd(ConditionReady, "True", JobFailedText),
                              Cnd(ConditionFailed, "True", JobFailedText)>>)

\* A Job with parallelism 2 and no completions, whose first finished entry is
\* Complete, has been evaluated.
CompleteJobEvaluated ==
    /\ pc = "done" /\ ran = "jobConditions"
    /\ Raw(u, <<"spec", "parallelism">>) = Int64V(2)
    /\ Raw(u, <<"spec", "completions">>) = Absent
    /\ Raw(u, <<"status", "succeeded">>) = Int64V(1)
    /\ Len(Entries(u)) = 2
    /\ HasType(Entries(u)[1], "Complete") /\ HasStatus(Entries(u)[1], "False")
    /\ IsCompleteTrue(Entries(u)[2])
    /\ out.conds.elems[2] = Cnd(ConditionCompleted, "True", "Job Completed. succeded: 1/2")

NoConditionsField == ~NestedFieldNoCopy(u, <<"status", "conditions">>).found

\* status.observedGeneration, absent counting as metadata.generation, equals
\* metadata.generation, absent counting as -1.
GenericGenerationObserved ==
    IntAt(u, <<"status", "observedGeneration">>, IntAt(u, <<"metadata", "generation">>, -1))
        = IntAt(u, <<"metadata", "generation">>, -1)

\* C13 (as stated): a resource handled by the generic evaluator that has no
\* status.conditions gets exactly one condition, Ready=True with reason
\* "No Ready condition found".
NoConditionsGenericReady ==
    pc = "done" /\ ran = "readyConditionReader" /\ NoConditionsField
    => OutIs(<<Cnd(ConditionReady, "True", "No Ready condition found")>>)

\* C13 (amended): the same, provided the generation is observed; otherwise the one
\* condition is Ready=False with the generation-mismatch reason.
NoConditionsGenericReadyWhenObserved ==
    pc = "done" /\ ran = "readyConditionReader" /\ NoConditionsField
    => IF GenericGenerationObserved
       THEN OutIs(<<Cnd(ConditionReady, "True", "No Ready condition found")>>)
       ELSE OutIs(<<Cnd(ConditionReady, "False", GenerationMismatch)>>)

\* A custom resource with an observed generation and no status.conditions has been
\* evaluated.
BareCustomResourceEvaluated ==
    /\ pc = "done" /\ ran = "readyConditionReader" /\ NoConditionsField
    /\ KindOf(u) = "MyCR"
    /\ Raw(u, <<"metadata", "generation">>) = Int64V(1)
    /\ Raw(u, <<"status", "observedGeneration">>) = Int64V(1)
    /\ out.conds.elems[1].Reason = "No Ready condition found"

\* The reason of the first check of a Deployment that fails, the checks taken in
\* the order they are listed, and "" when every check holds.
FirstFailing(gen, observed, deadline, spec, status, updated, ready, available, progressing, isAvailable) ==
    IF observed # gen THEN GenerationMismatch
    ELSE IF deadline THEN "Progress Deadline exceeded"
    ELSE IF ~(spec <= updated)
         THEN "Waiting for all replicas to be updated. Updated: "
                  \o ToString(updated) \o "/" \o ToString(spec)
    ELSE IF ~(status <= updated)
         THEN "Waiting for old replicas to finish termination. Pending termination: "
                  \o ToString(status - updated)
    ELSE IF ~(updated <= available)
         THEN "Waiting for all replicas to be available. Available: "
                  \o ToString(available) \o "/" \o ToString(updated)
    ELSE IF ~(spec <= ready)
         THEN "Waiting for all replicas to be ready. Ready: "
                  \o ToString(ready) \o "/" \o ToString(spec)
    ELSE IF ~(spec <= status)
         THEN "Waiting for all .status.replicas to be catchup. replicas: "
                  \o ToString(status) \o "/" \o ToString(spec)
    ELSE IF ~progressing THEN "New ReplicaSet is not available"
    ELSE IF ~isAvailable THEN "Deployment is not Available"
    ELSE ""

DeploymentExpected(failing, status) ==
    IF failing = ""
    THEN Cnd(ConditionReady, "True", "Deployment is available. Replicas: " \o ToString(status))
    ELSE Cnd(ConditionReady, "False", failing)

DeploymentFirstFailing ==
    FirstFailing(IntAt(u, <<"metadata", "generation">>, -1),
                 IntAt(u, <<"status", "observedGeneration">>, -1),
                 \E i \in 1..Len(Entries(u)) : IsDeadlineEntry(Entries(u)[i]),
                 IntAt(u, <<"spec", "replicas">>, 1),
                 IntAt(u, <<"status", "replicas">>, 0),
                 IntAt(u, <<"status", "updatedReplicas">>, 0),
                 IntAt(u, <<"status", "readyReplicas">>, 0),
                 IntAt(u, <<"status", "availableReplicas">>, 0),
                 \E i \in 1..Len(Entries(u)) :
                     /\ HasType(Entries(u)[i], "Progressing")
                     /\ HasStatus(Entries(u)[i], "True")
                     /\ HasReason(Entries(u)[i], "NewReplicaSetAvailable"),
                 \E i \in 1..Len(Entries(u)) :
                     HasType(Entries(u)[i], "Available") /\ HasStatus(Entries(u)[i], "True"))

\* C16: a Deployment is Ready exactly when its generation is observed, no
\* Progressing entry reports ProgressDeadlineExceeded, the five comparisons of
\* replica counts hold, a Progressing entry is True with NewReplicaSetAvailable and
\* an Available entry is True; when not, the reason is that of the first check to
\* fail, and when Ready it is "Deployment is available. Replicas: <status.replicas>".
DeploymentReadyIffAllChecks ==
    pc = "done" /\ ran = "deploymentConditions" =>
        OutIs(<<DeploymentExpected(DeploymentFirstFailing, IntAt(u, <<"status", "replicas">>, 0))>>)

\* A Deployment without spec.replicas that waits for its one replica to be updated
\* has been evaluated.
DefaultReplicasDeploymentEvaluated ==
    /\ pc = "done" /\ ran = "deploymentConditions"
    /\ Raw(u, <<"spec", "replicas">>) = Absent
    /\ Raw(u, <<"status", "updatedReplicas">>) = Int64V(0)
    /\ Entries(u) = <<>>
    /\ IntAt(u, <<"metadata", "generation">>, -1) = IntAt(u, <<"status", "observedGeneration">>, -1)
    /\ OutIs(<<Cnd(ConditionReady, "False", "Waiting for all replicas to be updated. Updated: 0/1")>>)

NoDesiredNumber == ~IsInteger(Raw(u, <<"status", "desiredNumberScheduled">>))
WorkloadGenerationObserved ==
    IntAt(u, <<"status", "observedGeneration">>, -1) = IntAt(u, <<"metadata", "generation">>, -1)

\* C17 (as stated): a DaemonSet without status.desiredNumberScheduled gets exactly
\* one condition, Ready=False with reason "Missing .status.desiredNumberScheduled".
MissingDesiredNotReady ==
    pc = "done" /\ ran = "daemonsetConditions" /\ NoDesiredNumber
    => OutIs(<<Cnd(ConditionReady, "False", "Missing .status.desiredNumberScheduled")>>)

\* C17 (amended): the same, provided the generation is observed; otherwise the one
\* condition is Ready=False with the generation-mismatch reason.
MissingDesiredNotReadyWhenObserved ==
    pc = "done" /\ ran = "daemonsetConditions" /\ NoDesiredNumber
    => IF WorkloadGenerationObserved
       THEN OutIs(<<Cnd(ConditionReady, "False", "Missing .status.desiredNumberScheduled")>>)
       ELSE OutIs(<<Cnd(ConditionReady, "False", GenerationMismatch)>>)

\* A DaemonSet with an observed generation, no desired number and no other
\* shortfall has been evaluated.
UnscheduledDaemonsetEvaluated ==
    /\ pc = "done" /\ ran = "daemonsetConditions"
    /\ Raw(u, <<"status", "desiredNumberScheduled">>) = Absent
    /\ Raw(u, <<"metadata", "generation">>) = Int64V(1)
    /\ Raw(u, <<"status", "observedGeneration">>) = Int64V(1)
    /\ Raw(u, <<"status", "numberReady">>) = Int64V(0)
    /\ out.conds.elems[1].Reason = "Missing .status.desiredNumberScheduled"

ServiceType == StringAt(u, <<"spec", "type">>, "ClusterIP")
ClusterIP == StringAt(u, <<"spec", "clusterIP">>, "")

\* C18: a Service gets exactly one Ready condition: False with reason
\* "ClusterIP not set. Service type: LoadBalancer" exactly when its type is
\* LoadBalancer and its cluster IP empty or absent, True with "ClusterIP: <ip>" for
\* a LoadBalancer with a cluster IP, True with "Always Ready. Service type: <type>"
\* for every other type, the type defaulting to ClusterIP.
ServiceReadyUnlessNoIP ==
    pc = "done" /\ ran = "serviceConditions" =>
        /\ Len(out.conds.elems) = 1
        /\ out.conds.elems[1].Type = ConditionReady
        /\ out.conds.elems[1].Status = "False" <=> (ServiceType = "LoadBalancer" /\ ClusterIP = "")
        /\ OutIs(<<IF ServiceType = "LoadBalancer"
                   THEN IF ClusterIP = ""
                        THEN Cnd(ConditionReady, "False", "ClusterIP not set. Service type: LoadBalancer")
                        ELSE Cnd(ConditionReady, "True", "ClusterIP: " \o ClusterIP)
                   ELSE Cnd(ConditionReady, "True", "Always Ready. Service type: " \o ServiceType)>>)

\* A LoadBalancer Service whose cluster IP is the empty string has been evaluated.
LoadBalancerEmptyIPEvaluated ==
    /\ pc = "done" /\ ran = "serviceConditions"
    /\ Raw(u, <<"spec", "type">>) = StrV("LoadBalancer")
    /\ Raw(u, <<"spec", "clusterIP">>) = StrV("")
    /\ out.conds.elems[1].Status = "False"

ConditionsField == NestedFieldNoCopy(u, <<"status", "conditions">>)
Malformed == ConditionsField.found /\ ~IsMapList(ConditionsField.val)

\* The snapshot with status.conditions removed.
WithoutConditions ==
    [u EXCEPT !.status = MapV([k \in DOMAIN @.map \ {"conditions"} |-> @.map[k]])]

\* C20: GetConditions returns the entries of status.conditions in order when the
\* field is a list of maps and an empty, non-nil list when it is absent or
\* malformed; every evaluator returns for a snapshot with malformed
\* status.conditions what it returns for the snapshot without the field.
MalformedConditionsAsNone ==
    pc = "done" =>
        /\ GetConditions(u) = (IF ConditionsField.found /\ IsMapList(ConditionsField.val)
                               THEN MkSlice(MapsOf(ConditionsField.val))
                               ELSE EmptySlice)
        /\ Malformed => out = IsReady(WithoutConditions) /\ ran = SelectFn(WithoutConditions)

\* A Pod whose status.conditions holds a completed Ready entry and then a string
\* has been evaluated.
MalformedPodEvaluated ==
    /\ pc = "done" /\ ran = "podConditions"
    /\ Malformed
    /\ Len(RawConditions(u)) = 2
    /\ IsCompletedPodEntry(RawConditions(u)[1])
    /\ OutIs(<<Cnd(ConditionReady, "False", "Phase: unknown")>>)

(***************************************************************************)
(* Properties of the workload evaluators                                   *)
(***************************************************************************)
OneReady(status) ==
    /\ out.err = Nil /\ ~out.conds.isNil
    /\ Len(out.conds.elems) = 1
    /\ out.conds.elems[1].Type = ConditionReady
    /\ out.conds.elems[1].Status = status

Tf(b) == IF b THEN "True" ELSE "False"

\* Is a StatefulSet past its replica checks rolled out?
StsRolledOut(spec, partition, updated, current, currentRevision, updatedRevision) ==
    IF partition # -1
    THEN updated >= spec - partition
    ELSE spec <= current /\ currentRevision = updatedRevision

StsExpected(spec, status, ready, rolledOut) ==
    IF ~(spec <= status)
    THEN OutIs(<<Cnd(ConditionReady, "False",
                     "Waiting for requested replicas. Replicas: "
                         \o ToString(status) \o "/" \o ToString(spec))>>)
    ELSE IF ~(spec <= ready) THEN OneReady("False")
    ELSE OneReady(Tf(rolledOut))

\* C21: a StatefulSet that is not ondelete, has its generation observed and has
\* spec.replicas (default 1) <= status.replicas and <= status.readyReplicas is Ready
\* exactly when status.updatedReplicas >= spec.replicas - partition if a partition
\* is set (not -1), whatever status.currentReplicas and the revisions are, and
\* exactly when spec.replicas <= status.currentReplicas and the two revisions are
\* equal if none is set; too few status.replicas are reported before too few
\* ready replicas.
StsPartitionOrRevision ==
    pc = "done" /\ ran = "stsConditions" /\ ~IsOndelete /\ WorkloadGenerationObserved =>
        StsExpected(IntAt(u, <<"spec", "replicas">>, 1),
                    IntAt(u, <<"status", "replicas">>, 0),
                    IntAt(u, <<"status", "readyReplicas">>, 0),
                    StsRolledOut(IntAt(u, <<"spec", "replicas">>, 1),
                                 IntAt(u, <<"spec", "updateStrategy", "rollingUpdate", "partition">>, -1),
                                 IntAt(u, <<"status", "updatedReplicas">>, 0),
                                 IntAt(u, <<"status", "currentReplicas">>, 0),
                                 StringAt(u, <<"status", "currentRevision">>, ""),
                                 StringAt(u, <<"status", "updatedRevision">>, "")))

\* A StatefulSet with partition 0, every replica updated, no current replica and
\* differing revisions has been found Ready.
PartitionedStsEvaluated ==
    /\ pc = "done" /\ ran = "stsConditions" /\ ~IsOndelete /\ WorkloadGenerationObserved
    /\ Raw(u, <<"spec", "updateStrategy", "rollingUpdate", "partition">>) = Int64V(0)
    /\ Raw(u, <<"spec", "replicas">>) = Int64V(1)
    /\ Raw(u, <<"status", "replicas">>) = Int64V(1)
    /\ Raw(u, <<"status", "readyReplicas">>) = Int64V(1)
    /\ Raw(u, <<"status", "updatedReplicas">>) = Int64V(1)
    /\ Raw(u, <<"status", "currentReplicas">>) = Int64V(0)
    /\ Raw(u, <<"status", "updatedRevision">>) = StrV("rev2")
    /\ OutIs(<<Cnd(ConditionReady, "True", "Partition rollout complete. updated: 1")>>)

IsReplicaFailure(c) == HasType(c, "ReplicaFailure") /\ HasStatus(c, "True")

\* The reason a ReplicaSet is not Ready for, "" when it is Ready.
ReplicasetFailing(failure, spec, labelled, available, ready) ==
    IF failure THEN "Replica Failure condition. Check Pods"
    ELSE IF spec = 0 /\ labelled = 0 /\ available = 0 /\ ready = 0 THEN "Replica is 0"
    ELSE IF ~(spec <= labelled)
         THEN "Waiting for all replicas to be fully-labeled. Labelled: "
                  \o ToString(labelled) \o "/" \o ToString(spec)
    ELSE IF ~(spec <= available)
         THEN "Waiting for all replicas to be available. Available: "
                  \o ToString(available) \o "/" \o ToString(spec)
    ELSE IF ~(spec <= ready)
         THEN "Waiting for all replicas to be ready. Ready: "
                  \o ToString(ready) \o "/" \o ToString(spec)
    ELSE ""

ReplicasetExpected(failing) ==
    IF failing = "" THEN OneReady("True") ELSE OutIs(<<Cnd(ConditionReady, "False", failing)>>)

\* C22: a ReplicaSet with its generation observed is not Ready when a
\* ReplicaFailure entry with status True stands anywhere in status.conditions;
\* else not Ready with reason "Replica is 0" when spec.replicas, labelledReplicas,
\* availableReplicas and readyReplicas are all 0; else Ready exactly when
\* spec.replicas (default 1) is <= labelledReplicas, availableReplicas and
\* readyReplicas, the first comparison to fail giving the reason; status.replicas
\* does not enter the decision.
ReplicasetReadyByCounts ==
    pc = "done" /\ ran = "replicasetConditions" /\ WorkloadGenerationObserved =>
        ReplicasetExpected(
            ReplicasetFailing(\E i \in 1..Len(Entries(u)) : IsReplicaFailure(Entries(u)[i]),
                              IntAt(u, <<"spec", "replicas">>, 1),
                              IntAt(u, <<"status", "labelledReplicas">>, 0),
                              IntAt(u, <<"status", "availableReplicas">>, 0),
                              IntAt(u, <<"status", "readyReplicas">>, 0)))

\* A ReplicaSet with every replica ready and a ReplicaFailure entry of status True
\* behind one of status False has been evaluated.
LateReplicaFailureEvaluated ==
    /\ pc = "done" /\ ran = "replicasetConditions" /\ WorkloadGenerationObserved
    /\ Entries(u) = <<Cond("ReplicaFailure", "False", ""), Cond("ReplicaFailure", "True", "FailedCreate")>>
    /\ Raw(u, <<"spec", "replicas">>) = Int64V(1)
    /\ Raw(u, <<"status", "labelledReplicas">>) = Int64V(1)
    /\ Raw(u, <<"status", "availableReplicas">>) = Int64V(1)
    /\ Raw(u, <<"status", "readyReplicas">>) = Int64V(1)
    /\ OutIs(<<Cnd(ConditionReady, "False", "Replica Failure condition. Check Pods")>>)

\* The reason a DaemonSet is not Ready for, "" when it is Ready.
DaemonsetFailing(desired, current, updated, available, ready) ==
    IF ~(desired <= current)
    THEN "Waiting for desired replicas to be scheduled. Current: "
             \o ToString(current) \o "/" \o ToString(desired)
    ELSE IF ~(desired <= updated)
    THEN "Waiting for updated replicas to be scheduled. Updated: "
             \o ToString(updated) \o "/" \o ToString(desired)
    ELSE IF ~(desired <= available)
    THEN "Waiting for replicas to be available. Available: "
             \o ToString(available) \o "/" \o ToString(desired)
    ELSE IF ~(desired <= ready)
    THEN "Waiting for replicas to be ready. Ready: "
             \o ToString(ready) \o "/" \o ToString(desired)
    ELSE ""

DaemonsetExpected(failing) ==
    IF failing = "" THEN OneReady("True") ELSE OutIs(<<Cnd(ConditionReady, "False", failing)>>)

\* C23: a DaemonSet with its generation observed and status.desiredNumberScheduled
\* present and not -1 is Ready exactly when desiredNumberScheduled is <= each of
\* currentNumberScheduled, updatedNumberScheduled, numberAvailable and numberReady,
\* each 0 when absent; when it is not, the reason names the first of the four
\* comparisons, in that order, to fail.
DaemonsetReadyByCounts ==
    pc = "done" /\ ran = "daemonsetConditions" /\ WorkloadGenerationObserved
        /\ IntAt(u, <<"status", "desiredNumberScheduled">>, -1) # -1 =>
        DaemonsetExpected(
            DaemonsetFailing(IntAt(u, <<"status", "desiredNumberScheduled">>, -1),
                             IntAt(u, <<"status", "currentNumberScheduled">>, 0),
                             IntAt(u, <<"status", "updatedNumberScheduled">>, 0),
                             IntAt(u, <<"status", "numberAvailable">>, 0),
                             IntAt(u, <<"status", "numberReady">>, 0)))

\* A DaemonSet scheduled and updated, with no replica available and none ready,
\* has been evaluated.
UnavailableDaemonsetEvaluated ==
    /\ pc = "done" /\ ran = "daemonsetConditions" /\ WorkloadGenerationObserved
    /\ Raw(u, <<"status", "desiredNumberScheduled">>) = Int64V(1)
    /\ Raw(u, <<"status", "currentNumberScheduled">>) = Int64V(1)
    /\ Raw(u, <<"status", "updatedNumberScheduled">>) = Int64V(1)
    /\ Raw(u, <<"status", "numberAvailable">>) = Int64V(0)
    /\ Raw(u, <<"status", "numberReady">>) = Int64V(0)
    /\ OutIs(<<Cnd(ConditionReady, "False", "Waiting for replicas to be available. Available: 0/1")>>)

PdbExpected(desired, current) ==
    IF desired = -1
    THEN OutIs(<<Cnd(ConditionReady, "False", "Missing .status.desiredHealthy")>>)
    ELSE OneReady(Tf(desired <= current))

\* C24: a PodDisruptionBudget gets exactly one Ready condition: False with reason
\* "Missing .status.desiredHealthy" when status.desiredHealthy is absent or -1,
\* else True exactly when desiredHealthy <= currentHealthy, currentHealthy being 0
\* when absent; the generations are not compared.
PdbReadyByBudget ==
    pc = "done" /\ ran = "pdbConditions" =>
        PdbExpected(IntAt(u, <<"status", "desiredHealthy">>, -1),
                    IntAt(u, <<"status", "currentHealthy">>, 0))

\* A PodDisruptionBudget that meets its budget, with an unobserved generation, has
\* been found Ready.
StalePdbEvaluated ==
    /\ pc = "done" /\ ran = "pdbConditions"
    /\ Raw(u, <<"metadata", "generation">>) = Int64V(2)
    /\ Raw(u, <<"status", "observedGeneration">>) = Int64V(1)
    /\ Raw(u, <<"status", "desiredHealthy">>) = Int64V(1)
    /\ Raw(u, <<"status", "currentHealthy">>) = Int64V(1)
    /\ OutIs(<<Cnd(ConditionReady, "True", "Budget is met. Replicas: 1/1")>>)

(***************************************************************************)
(* Properties of the generic, Pod and Job evaluators                       *)
(***************************************************************************)
\* The Ready condition the generic evaluator owes to one Ready entry.
ReadyMirror(c) ==
    Cnd(ConditionReady, IF HasStatus(c, "False") THEN "False" ELSE "True", StringAt(c.map, <<"reason">>, ""))

\* One condition per Ready entry from the i-th entry on, in encounter order.
RECURSIVE ReadyMirrors(_, _)
ReadyMirrors(entries, i) ==
    IF i > Len(entries) THEN <<>>
    ELSE IF HasType(entries[i], "Ready")
         THEN <<ReadyMirror(entries[i])>> \o ReadyMirrors(entries, i + 1)
         ELSE ReadyMirrors(entries, i + 1)

\* C25: the generic evaluator, its generation check passed, returns for m >= 1
\* Ready entries of status.conditions exactly m conditions, all of type Ready, in
\* the order of the entries, each with the reason of its entry and with status
\* False when the entry's status is "False" and True for any other or no status;
\* entries of other types add nothing.
GenericMirrorsEveryReadyEntry ==
    pc = "done" /\ ran = "readyConditionReader" /\ GenericGenerationObserved
        /\ (\E i \in 1..Len(Entries(u)) : HasType(Entries(u)[i], "Ready"))
    => OutIs(ReadyMirrors(Entries(u), 1))

\* A custom resource with an Unknown Ready entry, an entry of another type and a
\* Ready entry of status False without a reason has been evaluated.
UnknownThenFalseReadyEvaluated ==
    /\ pc = "done" /\ ran = "readyConditionReader" /\ GenericGenerationObserved
    /\ Entries(u) = <<Cond("Ready", "Unknown", "Reconciling"), Cond("SomeCondition", "False", ""),
                      Cond("Ready", "False", "")>>
    /\ OutIs(<<Cnd(ConditionReady, "True", "Reconciling"), Cnd(ConditionReady, "False", "")>>)

\* The evaluators that compare the generations with both defaults -1.
WorkloadFamily ==
    \/ ran \in {"deploymentConditions", "replicasetConditions", "daemonsetConditions"}
    \/ ran = "stsConditions" /\ ~IsOndelete

HasGeneration == IsInteger(Raw(u, <<"metadata", "generation">>))
HasObservedGeneration == IsInteger(Raw(u, <<"status", "observedGeneration">>))
MismatchReported == \E i \in 1..Len(out.conds.elems) : out.conds.elems[i].Reason = GenerationMismatch

\* C26: with status.observedGeneration absent, the Deployment, ReplicaSet,
\* DaemonSet and non-ondelete StatefulSet evaluators return Ready=False with the
\* generation-mismatch reason when metadata.generation is present and pass the
\* generation check when it is absent too, while the generic evaluator never
\* reports a mismatch.
AbsentObservedGenerationByFamily ==
    pc = "done" /\ ~HasObservedGeneration =>
        /\ WorkloadFamily /\ HasGeneration => OutIs(<<Cnd(ConditionReady, "False", GenerationMismatch)>>)
        /\ WorkloadFamily /\ ~HasGeneration => ~MismatchReported
        /\ ran = "readyConditionReader" => ~MismatchReported

\* A rolled-out StatefulSet with a generation and no observed generation has been
\* evaluated.
UnobservedStsEvaluated ==
    /\ pc = "done" /\ ran = "stsConditions" /\ ~IsOndelete
    /\ Raw(u, <<"metadata", "generation">>) = Int64V(1)
    /\ Raw(u, <<"status", "observedGeneration">>) = Absent
    /\ Raw(u, <<"spec", "replicas">>) = Int64V(1)
    /\ Raw(u, <<"status", "replicas">>) = Int64V(1)
    /\ Raw(u, <<"status", "readyReplicas">>) = Int64V(1)
    /\ Raw(u, <<"status", "currentReplicas">>) = Int64V(1)
    /\ Raw(u, <<"status", "updatedRevision">>) = StrV("rev1")
    /\ MismatchReported

ReadyEntryIndexes == {i \in 1..Len(Entries(u)) : HasType(Entries(u)[i], "Ready")}
TerminalCount ==
    CountType(out.conds.elems, ConditionCompleted) + CountType(out.conds.elems, ConditionFailed)

\* What the Pod evaluator owes to the one Ready entry c.
PodMirror(c) ==
    IF IsCompletedPodEntry(c)
    THEN /\ TerminalCount = 1
         /\ out.conds.elems[Len(out.conds.elems)].Type = ConditionReady
         /\ out.conds.elems[Len(out.conds.elems)].Status = "True"
    ELSE /\ TerminalCount = 0
         /\ OneReady(IF HasStatus(c, "True") THEN "True" ELSE "False")

\* C27: the Pod evaluator sets Ready to True and adds a Completed or Failed
\* condition exactly when the Pod's Ready entry has status False and reason
\* PodCompleted; for a Ready entry with any other status or reason the Ready
\* condition follows the entry's status, for a Pod without a Ready entry it is
\* False with reason "Phase: <phase>", and no Completed or Failed condition is
\* returned.
PodOverridesOnlyFalseCompleted ==
    pc = "done" /\ ran = "podConditions" /\ Cardinality(ReadyEntryIndexes) <= 1 =>
        /\ ReadyEntryIndexes = {} => OutIs(<<Cnd(ConditionReady, "False", "Phase: " \o Phase)>>)
        /\ \A i \in ReadyEntryIndexes : PodMirror(Entries(u)[i])

\* C28: no evaluator returns both a Completed and a Failed condition, and only the
\* Pod and the Job evaluator return either.
NeverCompletedAndFailed ==
    pc = "done" =>
        /\ CountType(out.conds.elems, ConditionCompleted) = 0
              \/ CountType(out.conds.elems, ConditionFailed) = 0
        /\ ran \notin {"podConditions", "jobConditions"} => TerminalCount = 0

\* A Job holding a Failed entry and then a Complete entry, both of status True,
\* has been evaluated.
FailedAndCompleteJobEvaluated ==
    /\ pc = "done" /\ ran = "jobConditions"
    /\ Len(Entries(u)) = 2
    /\ IsFailedTrue(Entries(u)[1]) /\ IsCompleteTrue(Entries(u)[2])
    /\ CountType(out.conds.elems, ConditionFailed) = 1
    /\ CountType(out.conds.elems, ConditionCompleted) = 0

JobFinished == \E i \in 1..Len(Entries(u)) : IsCompleteTrue(Entries(u)[i]) \/ IsFailedTrue(Entries(u)[i])

JobInProgressText ==
    "Job in progress. success:" \o ToString(IntAt(u, <<"status", "succeeded">>, 0))
        \o ", active: " \o ToString(IntAt(u, <<"status", "active">>, 0))
        \o ", failed: " \o ToString(IntAt(u, <<"status", "failed">>, 0))

\* C29: a Job with neither a Complete nor a Failed entry of status True gets
\* exactly one condition: Ready=False with reason "Job not started" when
\* status.startTime is empty or absent, Ready=True with the summary of its progress
\* otherwise; a finished Job is Ready=True also without a start time.
UnfinishedJobByStartTime ==
    pc = "done" /\ ran = "jobConditions" =>
        IF JobFinished
        THEN out.err = Nil /\ out.conds.elems[1].Type = ConditionReady
                 /\ out.conds.elems[1].Status = "True"
        ELSE IF StringAt(u, <<"status", "startTime">>, "") = ""
             THEN OutIs(<<Cnd(ConditionReady, "False", "Job not started")>>)
             ELSE OutIs(<<Cnd(ConditionReady, "True", JobInProgressText)>>)

\* A Job without a start time whose only entry is Complete with status False has
\* been evaluated.
UnstartedJobEvaluated ==
    /\ pc = "done" /\ ran = "jobConditions"
    /\ Raw(u, <<"status", "startTime">>) = Absent
    /\ Entries(u) = <<Cond("Complete", "False", "")>>
    /\ OutIs(<<Cnd(ConditionReady, "False", "Job not started")>>)

ReadyOutputIs(status) ==
    \A i \in 1..Len(out.conds.elems) :
        out.conds.elems[i].Type = ConditionReady => out.conds.elems[i].Status = status

\* The last Ready entry has status True or reason PodCompleted.
LastReadyEntryPasses ==
    \E i \in ReadyEntryIndexes :
        /\ \A j \in ReadyEntryIndexes : j <= i
        /\ HasStatus(Entries(u)[i], "True") \/ HasReason(Entries(u)[i], "PodCompleted")

\* C30 (as stated): when the Pod evaluator returns a Completed or a Failed
\* condition, the Ready condition it returns has status True, also for several
\* Ready entries in status.conditions.
TerminalPodIsReady ==
    pc = "done" /\ ran = "podConditions" /\ TerminalCount > 0 => ReadyOutputIs("True")

\* C30 (amended): when the Pod evaluator returns a Completed or a Failed condition,
\* the Ready condition it returns has status True if the last Ready entry of
\* status.conditions has status True or reason PodCompleted, and False otherwise.
TerminalPodFollowsLastReady ==
    pc = "done" /\ ran = "podConditions" /\ TerminalCount > 0 =>
        ReadyOutputIs(Tf(LastReadyEntryPasses))

\* A Succeeded Pod whose completed Ready entry is followed by a Ready entry that
\* waits for its containers has been evaluated.
CompletedThenNotReadyPodEvaluated ==
    /\ pc = "done" /\ ran = "podConditions"
    /\ Phase = "Succeeded"
    /\ Entries(u) = <<Cond("Ready", "False", "PodCompleted"), Cond("Ready", "False", "ContainersNotReady")>>
    /\ OutIs(<<Cnd(ConditionCompleted, "True", "Pod Succeeded"),
               Cnd(ConditionReady, "False", "Phase: Succeeded, ContainersNotReady")>>)

====
